---- MODULE Spec2Model ----
(***************************************************************************)
(* A model of the hash table of src/src/dict.c and src/src/dict.h: the two *)
(* tables of a dict, the chained entries, incremental rehashing, the       *)
(* iterators with their fingerprint, and the cursor scan.                  *)
(*                                                                         *)
(* The memory of the process is one record M:                              *)
(*   ht[0], ht[1]   the two dictht of the dict: table (the bucket array,   *)
(*                  a function from 0..size-1 to entry pointers), addr     *)
(*                  (the address of the bucket array, NULL when absent),   *)
(*                  size, sizemask, used                                   *)
(*   rehashidx, iterators   the two counters of the dict                   *)
(*   heap           the dictEntry objects, by address 1..MaxEntries        *)
(*   dict_can_resize   the static flag of dict.c                           *)
(*   log            the destructor calls made by the running operation     *)
(*   nullpage       what an access through NULL does on this platform      *)
(*   st             "ok" while the process runs; "segv", "assert", "hang"  *)
(*                  or "ub" once it has trapped, failed redis_assert,      *)
(*                  entered an endless loop or read memory it does not own *)
(* Each function of dict.c is an operator from M (and its arguments) to    *)
(* [m |-> the memory afterwards, ret |-> the value returned].              *)
(***************************************************************************)
EXTENDS Integers, Sequences, FiniteSets, TLC

\* ---------------------------------------------------------------- bounds
NKeys == 5
NVals == 2
MaxEntries == 6
MaxExpand == 5
NAddrs == 3
MaxAdds == 2
MaxCalls == 3

\* ------------------------------------------------------ program constants
DICT_OK == 0
DICT_ERR == 1
DICT_HT_INITIAL_SIZE == 4
dict_force_resize_ratio == 5

NULL == 0
\* The content of memory that was allocated and never written.
Uninit == -1
\* dictRehash leaves its while loop without a return statement.
NoReturn == -2

Keys == 1..NKeys
Vals == 1..NVals
EntryIds == 1..MaxEntries
TableAddrs == 1..NAddrs

\* ------------------------------------------------- machine words (64 bit)
\* An unsigned long / long long is four 16-bit limbs, least significant first.
Limb == 65536

RECURSIVE Xor16(_, _, _)
Xor16(a, b, n) ==
    IF n = 0 THEN 0
    ELSE IF a = 0 THEN b
    ELSE IF b = 0 THEN a
    ELSE (((a % 2) + (b % 2)) % 2) + 2 * Xor16(a \div 2, b \div 2, n - 1)

RECURSIVE And16(_, _, _)
And16(a, b, n) ==
    IF n = 0 \/ a = 0 \/ b = 0 THEN 0
    ELSE ((a % 2) * (b % 2)) + 2 * And16(a \div 2, b \div 2, n - 1)

RECURSIVE Or16(_, _, _)
Or16(a, b, n) ==
    IF n = 0 THEN 0
    ELSE IF a = 0 THEN b
    ELSE IF b = 0 THEN a
    ELSE (IF (a % 2) + (b % 2) > 0 THEN 1 ELSE 0) + 2 * Or16(a \div 2, b \div 2, n - 1)

\* The word of an int; a negative one is sign-extended, and stands for the
\* unsigned long that wrapped below 0.
W64(n) ==
    IF n >= 0 THEN <<n % Limb, n \div Limb, 0, 0>>
    ELSE <<n % Limb, (n \div Limb) % Limb, 65535, 65535>>
W64Zero == <<0, 0, 0, 0>>
W64Ones == <<65535, 65535, 65535, 65535>>
\* The value of a word that fits 31 bits.
W64Int(a) == a[1] + Limb * a[2]
W64Small(a) == a[3] = 0 /\ a[4] = 0 /\ a[2] < 32768

W64Xor(a, b) ==
    <<Xor16(a[1], b[1], 16), Xor16(a[2], b[2], 16),
      Xor16(a[3], b[3], 16), Xor16(a[4], b[4], 16)>>
W64And(a, b) ==
    <<And16(a[1], b[1], 16), And16(a[2], b[2], 16),
      And16(a[3], b[3], 16), And16(a[4], b[4], 16)>>
W64Or(a, b) ==
    <<Or16(a[1], b[1], 16), Or16(a[2], b[2], 16),
      Or16(a[3], b[3], 16), Or16(a[4], b[4], 16)>>
W64Not(a) == <<65535 - a[1], 65535 - a[2], 65535 - a[3], 65535 - a[4]>>

\* The limbs of a + b, given the four sums with their carries.
W64Carry(s1, s2, s3, s4) == <<s1 % Limb, s2 % Limb, s3 % Limb, s4 % Limb>>

W64Add(a, b) ==
    W64Carry(a[1] + b[1],
             a[2] + b[2] + ((a[1] + b[1]) \div Limb),
             a[3] + b[3] + ((a[2] + b[2] + ((a[1] + b[1]) \div Limb)) \div Limb),
             a[4] + b[4] + ((a[3] + b[3]
                 + ((a[2] + b[2] + ((a[1] + b[1]) \div Limb)) \div Limb)) \div Limb))

\* Limb j of a, with `fill` beyond the word.
W64Limb(a, j, fill) == IF j \in 1..4 THEN a[j] ELSE IF j > 4 THEN fill ELSE 0

\* Limb i of a << (16 * q + r)
ShlLimb(a, i, q, r) ==
    IF r = 0 THEN W64Limb(a, i - q, 0)
    ELSE ((W64Limb(a, i - q, 0) * (2 ^ r)) % Limb)
         + (W64Limb(a, i - q - 1, 0) \div (2 ^ (16 - r)))

W64Shl(a, k) ==
    <<ShlLimb(a, 1, k \div 16, k % 16), ShlLimb(a, 2, k \div 16, k % 16),
      ShlLimb(a, 3, k \div 16, k % 16), ShlLimb(a, 4, k \div 16, k % 16)>>

\* Limb i of a >> (16 * q + r), the vacated bits taken from `fill`.
ShrLimb(a, i, q, r, fill) ==
    IF r = 0 THEN W64Limb(a, i + q, fill)
    ELSE (W64Limb(a, i + q, fill) \div (2 ^ r))
         + ((W64Limb(a, i + q + 1, fill) * (2 ^ (16 - r))) % Limb)

\* a >> k with the vacated bits taken from `fill` (0: an unsigned shift;
\* 65535: the shift of a negative signed value).
W64ShrFill(a, k, fill) ==
    <<ShrLimb(a, 1, k \div 16, k % 16, fill), ShrLimb(a, 2, k \div 16, k % 16, fill),
      ShrLimb(a, 3, k \div 16, k % 16, fill), ShrLimb(a, 4, k \div 16, k % 16, fill)>>

W64Shr(a, k) == W64ShrFill(a, k, 0)
\* >> of a long long: gcc and clang shift the sign bit in.
W64Sar(a, k) == W64ShrFill(a, k, IF a[4] >= 32768 THEN 65535 ELSE 0)

\* x & m of two non-negative ints.
RECURSIVE BitAnd(_, _)
BitAnd(x, m) ==
    IF x = 0 \/ m = 0 THEN 0
    ELSE ((x % 2) * (m % 2)) + 2 * BitAnd(x \div 2, m \div 2)

RECURSIVE BitOr(_, _)
BitOr(x, m) ==
    IF x = 0 THEN m
    ELSE IF m = 0 THEN x
    ELSE (IF (x % 2) + (m % 2) > 0 THEN 1 ELSE 0) + 2 * BitOr(x \div 2, m \div 2)

\* a < b for two unsigned long, one that wrapped below 0 being kept as a
\* negative int.
UnsignedLess(a, b) == IF (a < 0) = (b < 0) THEN a < b ELSE b < 0

\* --------------------------------------------------------------- dict.h
dictIndentityHashFunction(key) == key
\* dictHashKey: the dictType of the model hashes with the identity hash.
dictHashKey(key) == dictIndentityHashFunction(key)
\* dictCompareKeys without a keyCompare: pointer equality.
dictCompareKeys(key1, key2) == key1 = key2
dictIsRehashing(M) == M.rehashidx # -1
dictSize(M) == M.ht[0].used + M.ht[1].used
dictSlots(M) == M.ht[0].size + M.ht[1].size

Running(M) == M.st = "ok"
Stop(M, why) == [M EXCEPT !.st = why]

\* A walk longer than this has met an entry twice: the chain is a cycle.
Fuel == MaxEntries + 1

_dictReset ==
    [table |-> [i \in {} |-> NULL], addr |-> NULL, size |-> 0, sizemask |-> 0, used |-> 0]

\* dictCreate, _dictInit. dict_can_resize starts at 1. nullpage says what the
\* platform does with an access through a null pointer: "trap" (SIGSEGV) or
\* "mapped" (page zero is mapped: a store there changes no object of the
\* program, a load yields whatever lies there).
dictCreate(np) ==
    [ht |-> [t \in 0..1 |-> _dictReset],
     rehashidx |-> -1,
     iterators |-> 0,
     heap |-> [e \in EntryIds |-> [alloc |-> FALSE, key |-> Uninit, val |-> Uninit, next |-> Uninit]],
     dict_can_resize |-> 1,
     log |-> <<>>,
     nullpage |-> np,
     st |-> "ok"]

\* The bucket arrays' addresses a zcalloc may return: those not in use.
FreeAddrs(M) == TableAddrs \ {M.ht[0].addr, M.ht[1].addr}
\* The entry addresses a zmalloc may return.
FreeEntries(M) == {e \in EntryIds : ~M.heap[e].alloc}

\* v bound to a name: F is applied to the value of v, computed once.
Let(v, F(_)) == CHOOSE r \in {F(x) : x \in {v}} : TRUE

\* size |= size >> k, for a shift by log2(k) bits
Smear(size, k) == BitOr(size, size \div k)

\* _dictNextPower for sizes that fit an int.
_dictNextPower(size) ==
    IF size < DICT_HT_INITIAL_SIZE THEN DICT_HT_INITIAL_SIZE
    ELSE Smear(Smear(Smear(Smear(Smear(size - 1, 2), 4), 16), 256), 65536) + 1

\* The dictht n of dictExpand: realsize null buckets at address a.
NewTable(realsize, a) ==
    [table |-> [i \in 0..(realsize - 1) |-> NULL], addr |-> a,
     size |-> realsize, sizemask |-> realsize - 1, used |-> 0]

\* dictExpand without the test for a rehash under way.
ExpandWhileRehashing(M, size, a) ==
    IF UnsignedLess(size, M.ht[0].used)
    THEN [m |-> M, ret |-> DICT_ERR]
    ELSE IF M.ht[0].addr = NULL
    THEN [m |-> [M EXCEPT !.ht[0] = NewTable(_dictNextPower(size), a)],
          ret |-> DICT_OK]
    ELSE [m |-> [M EXCEPT !.ht[1] = NewTable(_dictNextPower(size), a),
                          !.rehashidx = 0],
          ret |-> DICT_OK]

\* A dictExpand that installs the new table as table 0 in every case.
ExpandOverTable(M, size, a) ==
    IF dictIsRehashing(M) \/ UnsignedLess(size, M.ht[0].used)
    THEN [m |-> M, ret |-> DICT_ERR]
    ELSE [m |-> [M EXCEPT !.ht[0] = NewTable(_dictNextPower(size), a)],
          ret |-> DICT_OK]

\* dictExpand(d, size); a is the address zcalloc returns.
dictExpand(M, size, a) ==
    IF dictIsRehashing(M) \/ UnsignedLess(size, M.ht[0].used)
    THEN [m |-> M, ret |-> DICT_ERR]
    ELSE IF M.ht[0].addr = NULL
    THEN [m |-> [M EXCEPT !.ht[0] = NewTable(_dictNextPower(size), a)],
          ret |-> DICT_OK]
    ELSE [m |-> [M EXCEPT !.ht[1] = NewTable(_dictNextPower(size), a),
                          !.rehashidx = 0],
          ret |-> DICT_OK]

\* A dictResize that ignores dict_can_resize.
ResizeAlways(M, a) ==
    IF dictIsRehashing(M)
    THEN [m |-> M, ret |-> DICT_ERR]
    ELSE dictExpand(M,
                    IF M.ht[0].used < DICT_HT_INITIAL_SIZE
                    THEN DICT_HT_INITIAL_SIZE ELSE M.ht[0].used,
                    a)

\* dictResize
dictResize(M, a) ==
    IF M.dict_can_resize = 0 \/ dictIsRehashing(M)
    THEN [m |-> M, ret |-> DICT_ERR]
    ELSE dictExpand(M,
                    IF M.ht[0].used < DICT_HT_INITIAL_SIZE
                    THEN DICT_HT_INITIAL_SIZE ELSE M.ht[0].used,
                    a)

\* ------------------------------------------------------------ rehashing
\* A dictRehash that leaves de->next as it was.
RehashMoveEntryKeepNext(M, de, h) ==
    [M EXCEPT !.ht[1].table[h] = de,
              !.ht[0].used = @ - 1,
              !.ht[1].used = @ + 1]

\* A dictRehash that relinks de under the sizemask of table 0.
RehashMoveEntryOldMask(M, de, h) ==
    [M EXCEPT !.heap[de].next = M.ht[1].table[BitAnd(h, M.ht[0].sizemask)],
              !.ht[1].table[BitAnd(h, M.ht[0].sizemask)] = de,
              !.ht[0].used = @ - 1,
              !.ht[1].used = @ + 1]

\* dictRehash, the relinking of entry de at the head of bucket h of table 1.
RehashMoveEntry(M, de, h) ==
    [M EXCEPT !.heap[de].next = M.ht[1].table[h],
              !.ht[1].table[h] = de,
              !.ht[0].used = @ - 1,
              !.ht[1].used = @ + 1]

\* dictRehash, the loop that moves the chain starting at de to table 1.
RECURSIVE RehashMoveChain(_, _, _)
RehashMoveChain(M, de, fuel) ==
    IF de = NULL \/ ~Running(M) THEN M
    ELSE IF fuel = 0 THEN Stop(M, "hang")
    ELSE IF ~M.heap[de].alloc THEN Stop(M, "ub")
    ELSE RehashMoveChain(
             RehashMoveEntry(M, de, BitAnd(dictHashKey(M.heap[de].key), M.ht[1].sizemask)),
             M.heap[de].next, fuel - 1)

\* dictRehash, the loop that skips the empty buckets of table 0. It reads
\* table[rehashidx] without a bound: past the array it reads foreign memory.
RECURSIVE RehashSkip(_)
RehashSkip(M) ==
    IF M.rehashidx >= M.ht[0].size THEN Stop(M, "ub")
    ELSE IF M.ht[0].table[M.rehashidx] = NULL
    THEN RehashSkip([M EXCEPT !.rehashidx = @ + 1])
    ELSE M

\* A dictRehash that leaves the bucket it moved as it was.
RehashAdvanceKeep(M) ==
    IF ~Running(M) THEN M ELSE [M EXCEPT !.rehashidx = @ + 1]

\* dictRehash, the end of one step: the bucket is cleared, rehashidx advances.
RehashAdvance(M) ==
    IF ~Running(M) THEN M
    ELSE [M EXCEPT !.ht[0].table[M.rehashidx] = NULL, !.rehashidx = @ + 1]

\* dictRehash, the move of the bucket the skip stopped at.
RehashMove(M) ==
    IF ~Running(M) THEN M
    ELSE RehashAdvance(RehashMoveChain(M, M.ht[0].table[M.rehashidx], 2 * Fuel))

\* dictRehash, one bucket: the assertion, the skip, the move, the advance.
RehashBucket(M) ==
    IF ~(M.ht[0].size > M.rehashidx) THEN Stop(M, "assert")
    ELSE RehashMove(RehashSkip(M))

\* A dictRehash that does not call _dictReset on table 1.
RehashFinishNoReset(M) ==
    [M EXCEPT !.ht[0] = M.ht[1], !.rehashidx = -1]

\* dictRehash, table 1 takes the place of table 0 once table 0 is empty.
RehashFinish(M) ==
    [M EXCEPT !.ht[0] = M.ht[1], !.ht[1] = _dictReset, !.rehashidx = -1]

\* dictRehash, the while (n--) loop. The function ends without a return
\* statement when the n steps are done.
RECURSIVE RehashLoop(_, _)
RehashLoop(M, n) ==
    IF ~Running(M) \/ n = 0 THEN [m |-> M, ret |-> NoReturn]
    ELSE IF M.ht[0].used = 0 THEN [m |-> RehashFinish(M), ret |-> 0]
    ELSE RehashLoop(RehashBucket(M), n - 1)

dictRehash(M, n) ==
    IF ~dictIsRehashing(M) THEN [m |-> M, ret |-> 0]
    ELSE RehashLoop(M, n)

\* A _dictRehashStep that does not test iterators.
RehashStepAlways(M) == dictRehash(M, 1).m

_dictRehashStep(M) ==
    IF M.iterators = 0 THEN dictRehash(M, 1).m ELSE M

\* A lookup that leaves the rehash step out.
StepSkipped(M) == M

\* if (dictIsRehashing(d)) _dictRehashStep(d);
StepIfRehashing(M) ==
    IF dictIsRehashing(M) THEN _dictRehashStep(M) ELSE M

\* ------------------------------------------------------- chains, lookup
\* The while (he) loop of dictFind, _dictKeyIndex and dictGenericDelete: the
\* first entry from he on whose key compares equal, and the one before it.
RECURSIVE ChainSearch(_, _, _, _, _)
ChainSearch(M, he, prevHe, key, fuel) ==
    IF he = NULL THEN [st |-> "ok", he |-> NULL, prevHe |-> prevHe]
    ELSE IF fuel = 0 THEN [st |-> "hang", he |-> NULL, prevHe |-> prevHe]
    ELSE IF ~M.heap[he].alloc THEN [st |-> "ub", he |-> NULL, prevHe |-> prevHe]
    ELSE IF dictCompareKeys(key, M.heap[he].key)
    THEN [st |-> "ok", he |-> he, prevHe |-> prevHe]
    ELSE ChainSearch(M, M.heap[he].next, he, key, fuel - 1)

\* The search of one table: idx = h & sizemask; he = table[idx]; while (he).
SearchIn(M, key, table, idx) ==
    [table |-> table, idx |-> idx] @@
    ChainSearch(M, M.ht[table].table[idx], NULL, key, Fuel)

\* The loop over the tables ending after table 0.
SearchFirst(M, key, r0) == r0

\* The choice the loop over the tables makes after table 0 (result r0): it
\* goes on to table 1 when the key was not found and the dict is rehashing.
SearchNext(M, key, r0) ==
    IF r0.st # "ok" \/ r0.he # NULL \/ ~dictIsRehashing(M) THEN r0
    ELSE SearchIn(M, key, 1, BitAnd(dictHashKey(key), M.ht[1].sizemask))

\* The for (table = 0; table <= 1; table++) loop shared by dictFind,
\* _dictKeyIndex and dictGenericDelete: where key was found, if anywhere.
TableSearch(M, key) ==
    SearchNext(M, key, SearchIn(M, key, 0, BitAnd(dictHashKey(key), M.ht[0].sizemask)))

\* dictFind after its rehash step, r being the result of the search.
FindResult(M, r) ==
    IF r.st # "ok" THEN [m |-> Stop(M, r.st), ret |-> NULL]
    ELSE [m |-> M, ret |-> r.he]

\* dictFind after its rehash step.
FindStepped(M, key) ==
    IF ~Running(M) THEN [m |-> M, ret |-> NULL]
    ELSE FindResult(M, TableSearch(M, key))

\* A dictFind that makes no rehash step.
FindUnstepped(M, key) ==
    IF M.ht[0].size = 0 THEN [m |-> M, ret |-> NULL]
    ELSE FindStepped(M, key)

dictFind(M, key) ==
    IF M.ht[0].size = 0 THEN [m |-> M, ret |-> NULL]
    ELSE FindStepped(StepIfRehashing(M), key)

\* return he ? dictGetVal(he) : NULL
FetchResult(r) ==
    [m |-> r.m, ret |-> IF r.ret = NULL THEN NULL ELSE r.m.heap[r.ret].val]

dictFetchValue(M, key) == FetchResult(dictFind(M, key))

\* _dictExpandIfNeeded expanding only once used is above size.
ExpandIfAbove(M, a) ==
    IF dictIsRehashing(M) THEN [m |-> M, ret |-> DICT_OK]
    ELSE IF M.ht[0].size = 0 THEN dictExpand(M, DICT_HT_INITIAL_SIZE, a)
    ELSE IF (UnsignedLess(M.ht[0].size, M.ht[0].used) /\ M.dict_can_resize # 0)
            \/ M.ht[0].used < 0
            \/ (M.ht[0].used \div M.ht[0].size > dict_force_resize_ratio)
    THEN dictExpand(M, 2 * M.ht[0].used, a)
    ELSE [m |-> M, ret |-> DICT_OK]

\* ------------------------------------------------------------ insertion
\* A _dictExpandIfNeeded without the test of dict_force_resize_ratio.
ExpandIfAllowed(M, a) ==
    IF dictIsRehashing(M) THEN [m |-> M, ret |-> DICT_OK]
    ELSE IF M.ht[0].size = 0 THEN dictExpand(M, DICT_HT_INITIAL_SIZE, a)
    ELSE IF ~UnsignedLess(M.ht[0].used, M.ht[0].size) /\ M.dict_can_resize # 0
    THEN dictExpand(M, 2 * M.ht[0].used, a)
    ELSE [m |-> M, ret |-> DICT_OK]

\* _dictExpandIfNeeded; the quotient of a used that wrapped below 0 is above
\* every ratio.
_dictExpandIfNeeded(M, a) ==
    IF dictIsRehashing(M) THEN [m |-> M, ret |-> DICT_OK]
    ELSE IF M.ht[0].size = 0 THEN dictExpand(M, DICT_HT_INITIAL_SIZE, a)
    ELSE IF (~UnsignedLess(M.ht[0].used, M.ht[0].size) /\ M.dict_can_resize # 0)
            \/ M.ht[0].used < 0
            \/ (M.ht[0].used \div M.ht[0].size > dict_force_resize_ratio)
    THEN dictExpand(M, 2 * M.ht[0].used, a)
    ELSE [m |-> M, ret |-> DICT_OK]

\* _dictKeyIndex returning the bucket also when it found the key.
KeyIndexFound(M, r) ==
    IF r.st # "ok" THEN [m |-> Stop(M, r.st), ret |-> -1]
    ELSE [m |-> M, ret |-> r.idx]

\* _dictKeyIndex after the expansion, r being the result of the search.
KeyIndexResult(M, r) ==
    IF r.st # "ok" THEN [m |-> Stop(M, r.st), ret |-> -1]
    ELSE IF r.he # NULL THEN [m |-> M, ret |-> -1]
    ELSE [m |-> M, ret |-> r.idx]

\* _dictKeyIndex, x being what _dictExpandIfNeeded left and returned.
KeyIndexExpanded(x, key) ==
    IF x.ret = DICT_ERR THEN [m |-> x.m, ret |-> -1]
    ELSE KeyIndexResult(x.m, TableSearch(x.m, key))

\* _dictKeyIndex: -1 when the expansion failed or the key is present, else
\* the bucket in the table searched last.
_dictKeyIndex(M, key, a) == KeyIndexExpanded(_dictExpandIfNeeded(M, a), key)

\* *p = v for an entry pointer p: through NULL the store traps or is lost.
StoreNext(M, p, v) ==
    IF p = NULL
    THEN (IF M.nullpage = "trap" THEN Stop(M, "segv") ELSE M)
    ELSE IF ~M.heap[p].alloc THEN Stop(M, "ub")
    ELSE [M EXCEPT !.heap[p].next = v]

StoreVal(M, p, v) ==
    IF p = NULL
    THEN (IF M.nullpage = "trap" THEN Stop(M, "segv") ELSE M)
    ELSE IF ~M.heap[p].alloc THEN Stop(M, "ub")
    ELSE [M EXCEPT !.heap[p].val = v]

\* entry = zmalloc(sizeof(*entry)): entry is the address returned.
AllocEntry(M, entry, next) ==
    [M EXCEPT !.heap[entry] =
        [alloc |-> TRUE, key |-> Uninit, val |-> Uninit, next |-> next]]

\* dictAddRaw, ht->used++; dictSetKey(d, entry, key); return entry;
AddRawCount(M, key, t, entry) ==
    IF ~Running(M) THEN [m |-> M, ret |-> NULL]
    ELSE [m |-> [M EXCEPT !.ht[t].used = @ + 1, !.heap[entry].key = key],
          ret |-> entry]

\* dictAddRaw, entry->next = ht->table[index]; ht->table[index]->next = entry;
\* ht being table t. The bucket itself is not written.
AddRawLink(M, key, t, index, entry) ==
    AddRawCount(
        StoreNext(AllocEntry(M, entry, M.ht[t].table[index]),
                  M.ht[t].table[index], entry),
        key, t, entry)

\* dictAddRaw once _dictKeyIndex has left k.m and returned k.ret.
AddRawIndexed(k, key, entry) ==
    IF ~Running(k.m) \/ k.ret = -1 THEN [m |-> k.m, ret |-> NULL]
    ELSE AddRawLink(k.m, key, IF dictIsRehashing(k.m) THEN 1 ELSE 0, k.ret, entry)

\* dictAddRaw after its rehash step.
AddRawStepped(M, key, a, entry) ==
    IF ~Running(M) THEN [m |-> M, ret |-> NULL]
    ELSE AddRawIndexed(_dictKeyIndex(M, key, a), key, entry)

dictAddRaw(M, key, a, entry) ==
    AddRawStepped(StepIfRehashing(M), key, a, entry)

\* dictAdd, r being what dictAddRaw left and returned.
AddResult(r, val) ==
    IF ~Running(r.m) \/ r.ret = NULL THEN [m |-> r.m, ret |-> DICT_ERR]
    ELSE [m |-> StoreVal(r.m, r.ret, val), ret |-> DICT_OK]

dictAdd(M, key, val, a, entry) == AddResult(dictAddRaw(M, key, a, entry), val)

\* dictFreeVal, dictFreeKey: the valDestructor and the keyDestructor of the
\* dictType are called on the value and on the key.
dictFreeVal(M, v) == [M EXCEPT !.log = Append(@, <<"val", v>>)]
dictFreeKey(M, k) == [M EXCEPT !.log = Append(@, <<"key", k>>)]

\* dictReplace, dictSetVal(d, entry, val); dictFreeVal(d, &auxentry); return 0;
ReplaceSet(M, entry, val, aux) ==
    IF ~Running(M) THEN [m |-> M, ret |-> NoReturn]
    ELSE [m |-> dictFreeVal(StoreVal(M, entry, val), aux), ret |-> 0]

\* dictReplace, auxentry = *entry, f being what dictFind left and returned:
\* the load through a null entry traps or yields what lies at address 0.
ReplaceFound(f, val) ==
    IF ~Running(f.m) THEN [m |-> f.m, ret |-> NoReturn]
    ELSE IF f.ret = NULL
    THEN ReplaceSet(IF f.m.nullpage = "trap" THEN Stop(f.m, "segv") ELSE f.m,
                    NULL, val, Uninit)
    ELSE ReplaceSet(f.m, f.ret, val, f.m.heap[f.ret].val)

\* dictReplace, r being what dictAddRaw left and returned:
\* if (dictAddRaw(d, key) == DICT_OK) return 1; DICT_OK is 0, so the test is
\* whether dictAddRaw returned a null pointer.
ReplaceAdded(r, key, val) ==
    IF ~Running(r.m) THEN [m |-> r.m, ret |-> NoReturn]
    ELSE IF r.ret = DICT_OK THEN [m |-> r.m, ret |-> 1]
    ELSE ReplaceFound(dictFind(r.m, key), val)

dictReplace(M, key, val, a, e) == ReplaceAdded(dictAddRaw(M, key, a, e), key, val)

\* dictPeplaceRaw, f being what dictFind left and returned.
PeplaceFound(f, key, a, e) ==
    IF ~Running(f.m) \/ f.ret # NULL THEN f
    ELSE dictAddRaw(f.m, key, a, e)

dictPeplaceRaw(M, key, a, e) == PeplaceFound(dictFind(M, key), key, a, e)

\* ------------------------------------------------------------- deletion
\* A dictGenericDelete that writes the bucket whatever prevHe is.
DeleteUnlinkHead(M, r) ==
    [M EXCEPT !.ht[r.table].table[r.idx] = M.heap[r.he].next]

\* dictGenericDelete, if (prevHe) prevHe->next = he->next;
\* else d->ht[table].table[idx] = he->next;
DeleteUnlink(M, r) ==
    IF r.prevHe # NULL
    THEN [M EXCEPT !.heap[r.prevHe].next = M.heap[r.he].next]
    ELSE [M EXCEPT !.ht[r.table].table[r.idx] = M.heap[r.he].next]

\* A DeleteFree that calls the destructors whatever nofree is.
DeleteFreeAlways(M, he, nofree) ==
    dictFreeVal(dictFreeKey(M, M.heap[he].key), M.heap[he].val)

\* dictGenericDelete, if (!nofree) { dictFreeKey(d, he); dictFreeVal(d, he); }
DeleteFree(M, he, nofree) ==
    IF nofree = 0
    THEN dictFreeVal(dictFreeKey(M, M.heap[he].key), M.heap[he].val)
    ELSE M

\* dictGenericDelete, zfree(he); d->ht[table].used--; the freed entry holds
\* nothing the program may read again.
DeleteRelease(M, r) ==
    [M EXCEPT !.heap[r.he] = [alloc |-> FALSE, key |-> Uninit, val |-> Uninit,
                              next |-> Uninit],
              !.ht[r.table].used = @ - 1]

\* A DeleteResult that counts an entry less also when it found none.
DeleteResultCounted(M, r, nofree) ==
    IF r.st # "ok" THEN [m |-> Stop(M, r.st), ret |-> DICT_ERR]
    ELSE IF r.he = NULL
    THEN [m |-> [M EXCEPT !.ht[0].used = @ - 1], ret |-> DICT_ERR]
    ELSE [m |-> DeleteRelease(DeleteFree(DeleteUnlink(M, r), r.he, nofree), r),
          ret |-> DICT_OK]

\* dictGenericDelete after its rehash step, r being the result of the search.
DeleteResult(M, r, nofree) ==
    IF r.st # "ok" THEN [m |-> Stop(M, r.st), ret |-> DICT_ERR]
    ELSE IF r.he = NULL THEN [m |-> M, ret |-> DICT_ERR]
    ELSE [m |-> DeleteRelease(DeleteFree(DeleteUnlink(M, r), r.he, nofree), r),
          ret |-> DICT_OK]

\* dictGenericDelete after its rehash step.
DeleteStepped(M, key, nofree) ==
    IF ~Running(M) THEN [m |-> M, ret |-> DICT_ERR]
    ELSE DeleteResult(M, TableSearch(M, key), nofree)

dictGenericDelete(M, key, nofree) ==
    IF M.ht[0].size = 0 THEN [m |-> M, ret |-> DICT_ERR]
    ELSE DeleteStepped(StepIfRehashing(M), key, nofree)

dictDelete(M, key) == dictGenericDelete(M, key, 0)
dictDeleteNoFree(M, key) == dictGenericDelete(M, key, 1)

\* -------------------------------------------------------------- iterators
\* dictFingerprint, hash = (~hash) + (hash << 21). The arithmetic of the
\* long long wraps as two's complement does.
FingerprintInvert(hash) == W64Add(W64Not(hash), W64Shl(hash, 21))

\* dictFingerprint, hash = hash ^ (hash >> k)
FingerprintFold(hash, k) == W64Xor(hash, W64Sar(hash, k))

\* dictFingerprint, hash = (hash + (hash << a)) + (hash << b)
FingerprintScale(hash, a, b) ==
    W64Add(W64Add(hash, W64Shl(hash, a)), W64Shl(hash, b))

\* dictFingerprint, hash = hash + (hash << 31)
FingerprintSpread(hash) == W64Add(hash, W64Shl(hash, 31))

\* dictFingerprint, the hashing step of the loop: Thomas Wang's 64 bit hash.
FingerprintMix(hash) ==
    Let(FingerprintInvert(hash), LAMBDA h1 :
    Let(FingerprintFold(h1, 24), LAMBDA h2 :
    Let(FingerprintScale(h2, 3, 8), LAMBDA h3 :
    Let(FingerprintFold(h3, 14), LAMBDA h4 :
    Let(FingerprintScale(h4, 2, 4), LAMBDA h5 :
    Let(FingerprintFold(h5, 28), LAMBDA h6 :
    FingerprintSpread(h6)))))))

\* dictFingerprint, for (j = 0; j < 6; j++) from integers[j] on.
RECURSIVE FingerprintLoop(_, _, _)
FingerprintLoop(integers, j, hash) ==
    IF j > Len(integers) THEN hash
    ELSE Let(FingerprintMix(W64Add(hash, W64(integers[j]))),
             LAMBDA h : FingerprintLoop(integers, j + 1, h))

\* dictFingerprint, integers[0..5]: the bucket arrays are told by their address.
FingerprintIntegers(M) ==
    <<M.ht[0].addr, M.ht[0].size, M.ht[0].used,
      M.ht[1].addr, M.ht[1].size, M.ht[1].used>>

dictFingerprint(M) == FingerprintLoop(FingerprintIntegers(M), 1, W64Zero)

\* dictGetIterator: the dictIterator zmalloc returned, its fingerprint not
\* yet written.
dictGetIterator ==
    [table |-> 0, index |-> -1, safe |-> 0, entry |-> NULL, nextEntry |-> NULL,
     fingerprint |-> Uninit]

dictGetSafeIterator == [dictGetIterator EXCEPT !.safe = 1]

\* The dictNext calls and loop rounds return [m, it, ret]: the memory, the
\* iterator and the entry returned.
\* dictNext, if (iter->index == -1 && iter->table == 0): the first round.
NextFirst(M, I) ==
    IF I.index = -1 /\ I.table = 0
    THEN IF I.safe # 0
         THEN [m |-> [M EXCEPT !.iterators = @ + 1], it |-> I]
         ELSE [m |-> M, it |-> [I EXCEPT !.fingerprint = dictFingerprint(M)]]
    ELSE [m |-> M, it |-> I]

\* dictNext, iter->entry = ht->table[iter->index]
NextHead(M, I) ==
    IF I.index \in DOMAIN M.ht[I.table].table
    THEN [m |-> M, it |-> [I EXCEPT !.entry = M.ht[I.table].table[I.index]]]
    ELSE [m |-> Stop(M, "ub"), it |-> I]

\* A dictNext that ends the iteration at the end of table 0.
NextIndexOneTable(M, I) ==
    IF I.index >= M.ht[I.table].size
    THEN [m |-> M, it |-> I, done |-> TRUE]
    ELSE NextHead(M, I)

\* dictNext, if (iter->index >= (signed) ht->size), after iter->index++:
\* on to table 1, or the break that ends the iteration (entry is NULL then).
NextIndex(M, I) ==
    IF I.index >= M.ht[I.table].size
    THEN IF dictIsRehashing(M) /\ I.table = 0
         THEN NextHead(M, [I EXCEPT !.table = 1, !.index = 0])
         ELSE [m |-> M, it |-> I, done |-> TRUE]
    ELSE NextHead(M, I)

\* A dictNext that reads the successor from the entry it returned last.
NextMoveUncached(M, I) ==
    IF I.entry = NULL
    THEN Let(NextFirst(M, I),
             LAMBDA f : NextIndex(f.m, [f.it EXCEPT !.index = @ + 1]))
    ELSE IF ~M.heap[I.entry].alloc THEN [m |-> Stop(M, "ub"), it |-> I]
    ELSE [m |-> M, it |-> [I EXCEPT !.entry = M.heap[I.entry].next]]

\* dictNext, the branches of if (iter->entry == NULL)
NextMove(M, I) ==
    IF I.entry = NULL
    THEN Let(NextFirst(M, I),
             LAMBDA f : NextIndex(f.m, [f.it EXCEPT !.index = @ + 1]))
    ELSE [m |-> M, it |-> [I EXCEPT !.entry = I.nextEntry]]

\* dictNext, while (1): r is what the round's move left.
RECURSIVE NextLoop(_, _, _)
NextRound(r, fuel) ==
    IF ~Running(r.m) THEN [m |-> r.m, it |-> r.it, ret |-> NULL]
    ELSE IF "done" \in DOMAIN r THEN [m |-> r.m, it |-> r.it, ret |-> NULL]
    ELSE IF r.it.entry = NULL THEN NextLoop(r.m, r.it, fuel - 1)
    ELSE IF r.it.entry \notin EntryIds \/ ~r.m.heap[r.it.entry].alloc
    THEN [m |-> Stop(r.m, "ub"), it |-> r.it, ret |-> NULL]
    ELSE [m |-> r.m,
          it |-> [r.it EXCEPT !.nextEntry = r.m.heap[r.it.entry].next],
          ret |-> r.it.entry]

NextLoop(M, I, fuel) ==
    IF fuel = 0 THEN [m |-> Stop(M, "hang"), it |-> I, ret |-> NULL]
    ELSE NextRound(NextMove(M, I), fuel)

\* dictNext(iter): each round returns or moves to the next bucket.
dictNext(M, I) == NextLoop(M, I, dictSlots(M) + 3)

\* dictReleaseIterator without the redis_assert.
ReleaseUnchecked(M, I) ==
    IF ~(I.index = -1 /\ I.table = 0) /\ I.safe # 0
    THEN [M EXCEPT !.iterators = @ - 1]
    ELSE M

\* dictReleaseIterator(iter): the memory afterwards; redis_assert ends the
\* process when the fingerprints differ.
dictReleaseIterator(M, I) ==
    IF ~(I.index = -1 /\ I.table = 0)
    THEN IF I.safe # 0 THEN [M EXCEPT !.iterators = @ - 1]
         ELSE IF I.fingerprint = dictFingerprint(M) THEN M
         ELSE Stop(M, "assert")
    ELSE M

\* ---------------------------------------------------- the program's state
VARIABLES
    m,      \* the memory of the process (see the head of the module)
    last,   \* the last call made: its name, arguments and result
    live,   \* the keys added with DICT_OK and not deleted with DICT_OK since
    run,    \* the dictRehash(d, 1) calls made, with no other call between them,
            \* since a dictExpand armed rehashing on a table 0 of size0 buckets,
            \* filled of them holding a chain
    scan,   \* the dictScan calls of the scan under way: the cursor to pass
            \* next, what the visitor was given, the buckets selected
    it      \* the iterator of the caller, and what was done to the dict since
            \* the caller got it

vars == <<m, last, live, run, scan, it>>

NoCall ==
    [op |-> "none", key |-> 0, val |-> 0, ret |-> 0, had |-> FALSE, prevHe |-> NULL,
     log |-> <<>>, des |-> <<>>]
NoRun == [active |-> FALSE, calls |-> 0, size0 |-> 0, filled |-> 0]

\* No scan under way. phase is "idle", "on" (dictScan returned a cursor other
\* than 0) or "done" (it returned 0); v is the cursor to pass next; visits
\* counts, up to 2, how often the visitor was given each key; calls counts
\* the dictScan calls and seen holds the buckets v & m0 they selected, both
\* while plain holds: the scan began on a dict that held entries and was not
\* rehashing, and no other call was made since.
NoScan ==
    [phase |-> "idle", v |-> W64Zero, visits |-> [k \in Keys |-> 0],
     calls |-> 0, seen |-> {}, plain |-> FALSE]

\* The caller holds no iterator. state is "none", "live" (dictGetIterator or
\* dictGetSafeIterator returned i) or "released" (i was given to
\* dictReleaseIterator); integers holds what dictFingerprint read at the first
\* dictNext of an unsafe iterator; early and late count, up to 2, the dictAdd,
\* dictDelete and dictExpand calls that returned DICT_OK before and after that
\* first dictNext; calls counts the calls made since the caller got the
\* iterator; stepped tells whether a lookup made since that first dictNext
\* found the dict rehashing; returned lists what the dictNext calls of a walk
\* returned.
NoIter ==
    [state |-> "none", i |-> dictGetIterator, integers |-> <<>>, early |-> 0, late |-> 0,
     calls |-> 0, stepped |-> FALSE, returned |-> <<>>]

\* dictReleaseIterator's test: the iterator was advanced.
Advanced(I) == ~(I.index = -1 /\ I.table = 0)

\* What a caller sees of a call that returned r: nothing once the process died.
Seen(r) == IF Running(r.m) THEN r.ret ELSE NoReturn

\* The value dictFetchValue returns for key (its rehash step is not kept).
FindVal(M, key) == Seen(dictFetchValue(M, key))

\* The entries chained from he on, as far as they are allocated.
RECURSIVE ChainEntries(_, _, _)
ChainEntries(M, he, fuel) ==
    IF he \notin EntryIds \/ fuel = 0 THEN {}
    ELSE IF ~M.heap[he].alloc THEN {}
    ELSE {he} \cup ChainEntries(M, M.heap[he].next, fuel - 1)

\* The entries reachable from the buckets of table t.
TableEntries(M, t) ==
    UNION {ChainEntries(M, M.ht[t].table[b], Fuel) : b \in DOMAIN M.ht[t].table}

\* The entries reachable from either table.
AllEntries(M) == TableEntries(M, 0) \cup TableEntries(M, 1)

\* The keys stored in either table.
KeysIn(M) == {M.heap[e].key : e \in AllEntries(M)}

\* The entries stored under key, in either table.
EntriesOf(M, key) == {e \in AllEntries(M) : M.heap[e].key = key}

\* zcalloc and zmalloc of the model return the lowest free address.
LowAddr(M) == {a \in FreeAddrs(M) : \A b \in FreeAddrs(M) : a <= b}
LowEntry(M) == {e \in FreeEntries(M) : \A f \in FreeEntries(M) : e <= f}

\* The same, for a program that allocates no more than MaxAdds entries.
FewEntries(M) == LowEntry(M) \cap (1..MaxAdds)

\* The keys such a program inserts.
FewKeys == 1..MaxAdds

\* The sizes dictExpand is asked for: none, the initial one, a larger one.
ExpandSizes == {0, DICT_HT_INITIAL_SIZE, MaxExpand}

\* The memory as a call finds it: the destructor log is the call's own.
Enter == [m EXCEPT !.log = <<>>]

\* The record of a call and of what it returned: had tells whether key was
\* stored when the call was made, prevHe which entry preceded it in its chain
\* once the call had made its rehash step.
Called(op, key, val, r) ==
    [op |-> op, key |-> key, val |-> val, ret |-> Seen(r),
     had |-> key \in KeysIn(m),
     prevHe |-> IF op = "dictDelete" /\ m.ht[0].size # 0
                THEN TableSearch(StepIfRehashing(m), key).prevHe ELSE NULL,
     log |-> r.m.log, des |-> <<>>]

\* The buckets of table 0 that hold a chain.
Filled(M) == {b \in DOMAIN M.ht[0].table : M.ht[0].table[b] # NULL}

\* ---------------------------------------------------------------- actions
Add(addrs, ents, keys) ==
    /\ Running(m)
    /\ \E key \in keys, val \in Vals, a \in addrs, e \in ents :
         \E r \in {dictAdd(Enter, key, val, a, e)} :
             /\ m' = r.m
             /\ last' = Called("dictAdd", key, val, r)
             /\ live' = IF Seen(r) = DICT_OK THEN live \cup {key} ELSE live
             /\ run' = NoRun

Replace(addrs, ents, keys) ==
    /\ Running(m)
    /\ \E key \in keys, val \in Vals, a \in addrs, e \in ents :
         \E r \in {dictReplace(Enter, key, val, a, e)} :
             /\ m' = r.m
             /\ last' = Called("dictReplace", key, val, r)
             /\ live' = IF Seen(r) = 1 THEN live \cup {key} ELSE live
             /\ run' = NoRun

Delete ==
    /\ Running(m)
    /\ \E key \in Keys :
         \E r \in {dictDelete(Enter, key)} :
             /\ m' = r.m
             /\ last' = Called("dictDelete", key, 0, r)
             /\ live' = IF Seen(r) = DICT_OK THEN live \ {key} ELSE live
             /\ run' = NoRun

Find ==
    /\ Running(m)
    /\ \E key \in Keys :
         \E r \in {dictFetchValue(Enter, key)} :
             /\ m' = r.m
             /\ last' = Called("dictFetchValue", key, 0, r)
             /\ UNCHANGED live
             /\ run' = NoRun

Expand(addrs) ==
    /\ Running(m)
    /\ \E size \in ExpandSizes, a \in addrs :
         \E r \in {dictExpand(Enter, size, a)} :
             /\ m' = r.m
             /\ last' = Called("dictExpand", 0, size, r)
             /\ UNCHANGED live
             /\ run' = IF r.ret = DICT_OK /\ dictIsRehashing(r.m)
                       THEN [active |-> TRUE, calls |-> 0, size0 |-> r.m.ht[0].size,
                             filled |-> Cardinality(Filled(r.m))]
                       ELSE NoRun

Resize(addrs) ==
    /\ Running(m)
    /\ \E a \in addrs :
         \E r \in {dictResize(Enter, a)} :
             /\ m' = r.m
             /\ last' = Called("dictResize", 0, 0, r)
             /\ UNCHANGED live
             /\ run' = NoRun

\* dictRehash(d, 1)
Rehash ==
    /\ Running(m)
    /\ \E r \in {dictRehash(Enter, 1)} :
           /\ m' = r.m
           /\ last' = Called("dictRehash", 0, 1, r)
           /\ UNCHANGED live
           /\ run' = IF run.active /\ run.calls <= run.size0
                     THEN [run EXCEPT !.calls = @ + 1]
                     ELSE NoRun

\* dictEnableResize, dictDisableResize
SetResize ==
    /\ Running(m)
    /\ \E flag \in 0..1 :
         /\ flag # m.dict_can_resize
         /\ m' = [Enter EXCEPT !.dict_can_resize = flag]
         /\ last' = [NoCall EXCEPT !.op = "dictSetResize", !.val = flag]
         /\ UNCHANGED live
         /\ run' = NoRun

\* ------------------------------------------------------- specifications
\* The program from dictCreate on, on either kind of platform.
Init ==
    /\ \E np \in {"trap", "mapped"} : m = dictCreate(np)
    /\ last = NoCall
    /\ live = {}
    /\ run = NoRun
    /\ scan = NoScan
    /\ it = NoIter

Next ==
    /\ \/ Add(LowAddr(m), FewEntries(m), FewKeys)
       \/ Replace(LowAddr(m), FewEntries(m), FewKeys)
       \/ Delete
       \/ Find
       \/ Expand(LowAddr(m))
       \/ Resize(LowAddr(m))
       \/ Rehash
       \/ SetResize
    /\ UNCHANGED <<scan, it>>

Spec == Init /\ [][Next]_vars

\* ------------------------------------------- insertion and replacement
\* C1: dictAdd(k, v) on a dict that does not contain k returns DICT_OK, and a
\* following dictFind(k) returns an entry whose value is v.
C1_AddThenFind ==
    (last.op = "dictAdd" /\ ~last.had)
        => (last.ret = DICT_OK /\ FindVal(m, last.key) = last.val)

\* The process runs and dictSize is the number of keys in L.
SizeCounts(M, L) == Running(M) /\ dictSize(M) = Cardinality(L)

\* C2: a dictAdd of a key not counted yet, a dictDelete or a rehash step keeps
\* dictSize(d) = ht[0].used + ht[1].used equal to the number of keys added
\* with success and not deleted since.
C2_SizeCountsLive ==
    [][(/\ SizeCounts(m, live)
        /\ last'.op \in {"dictAdd", "dictDelete", "dictRehash"}
        /\ (last'.op = "dictAdd" => last'.key \notin live))
       => SizeCounts(m', live')]_vars

\* C4: dictReplace(k, v1) on a dict without k followed by dictReplace(k, v2)
\* leaves exactly one entry for k, whose value is v2, and the value destructor
\* was called once over the two calls, on v1.
C4_ReplaceTwice ==
    [][(/\ last.op = "dictReplace" /\ ~last.had
        /\ last'.op = "dictReplace" /\ last'.key = last.key)
       => (/\ Running(m')
           /\ Cardinality(EntriesOf(m', last'.key)) = 1
           /\ FindVal(m', last'.key) = last'.val
           /\ last.log \o last'.log = << <<"val", last.val>> >>)]_vars

\* C5: dictReplace(k, v) returns 1 exactly when k was absent and an entry
\* holding v was inserted, and 0 exactly when k was present and its value was
\* overwritten with v.
C5_ReplaceReturn ==
    last.op = "dictReplace"
        => /\ FindVal(m, last.key) = last.val
           /\ last.ret = (IF last.had THEN 0 ELSE 1)

\* ------------------------------------------------------ populated dicts
\* dictAddRaw never stores the new entry in its bucket (C1), so no call
\* sequence of this program fills a table. The code that works on filled
\* tables is therefore run from the tables dictEntry, dictht and dict
\* describe: size buckets, each the head of a chain of entries linked by next,
\* used entries in all, every entry in the bucket its key hashes to.

\* The value stored under key k in such a dict.
ValOf(k) == (k % NVals) + 1

\* The keys of ks that hash to bucket b of a table of size buckets.
BucketKeys(ks, size, b) == {k \in ks : BitAnd(dictHashKey(k), size - 1) = b}

Lowest(S) == IF S = {} THEN NULL ELSE CHOOSE x \in S : \A y \in S : x <= y
Highest(S) == IF S = {} THEN NULL ELSE CHOOSE x \in S : \A y \in S : x >= y

\* The head of the chain holding the keys S, and the entry after k in it. The
\* entry of key k lies at address k; a chain lists its keys upwards or downwards.
ChainHead(S, order) == IF order = "up" THEN Lowest(S) ELSE Highest(S)
ChainNext(S, k, order) ==
    IF order = "up" THEN Lowest({j \in S : j > k}) ELSE Highest({j \in S : j < k})

\* A dict that is not rehashing, whose table 0 of size buckets holds ks.
dictLoaded(np, size, ks, order) ==
    [dictCreate(np) EXCEPT
        !.ht[0] = [table |-> [b \in 0..(size - 1) |->
                                 ChainHead(BucketKeys(ks, size, b), order)],
                   addr |-> 1, size |-> size, sizemask |-> size - 1,
                   used |-> Cardinality(ks)],
        !.heap = [e \in EntryIds |->
                    IF e \in ks
                    THEN [alloc |-> TRUE, key |-> e, val |-> ValOf(e),
                          next |-> ChainNext(
                              BucketKeys(ks, size, BitAnd(dictHashKey(e), size - 1)),
                              e, order)]
                    ELSE @[e]]]

\* The table sizes of the populated dicts.
LoadedSizes == {DICT_HT_INITIAL_SIZE, 2 * DICT_HT_INITIAL_SIZE}

InitLoaded ==
    /\ \E np \in {"trap"}, size \in LoadedSizes,
          ks \in SUBSET Keys, order \in {"up", "down"} :
          /\ m = dictLoaded(np, size, ks, order)
          /\ live = ks
    /\ last = NoCall
    /\ run = NoRun
    /\ scan = NoScan
    /\ it = NoIter

\* The calls that insert nothing.
NextLoaded ==
    /\ \/ Delete
       \/ Expand(LowAddr(m))
       \/ Resize(LowAddr(m))
       \/ Rehash
    /\ UNCHANGED <<scan, it>>

SpecLoaded == InitLoaded /\ [][NextLoaded]_vars

\* --------------------------------------------------------------- deletion
\* The table of M that holds key, 0 when none does.
HolderOf(M, key) ==
    IF key \in {M.heap[e].key : e \in TableEntries(M, 1)} THEN 1 ELSE 0

\* What dictDelete(key) did to a dict that was in state M when it unlinked.
Deleted(M, M1, key) ==
    /\ FindVal(M1, key) = NULL
    /\ key \notin KeysIn(M1)
    /\ M1.ht[HolderOf(M, key)].used = M.ht[HolderOf(M, key)].used - 1
    /\ M1.ht[1 - HolderOf(M, key)].used = M.ht[1 - HolderOf(M, key)].used
    /\ \A j \in Keys \ {key} : FindVal(M1, j) = FindVal(M, j)

\* C3: after dictDelete(k) returned DICT_OK, dictFind(k) returns NULL, k is in
\* neither table, used of the table that held k (once dictDelete had made its
\* rehash step) is one less, the other table's used is the same, and every
\* other key is found with the value it had.
C3_DeleteRemoves ==
    [][(last'.op = "dictDelete" /\ last'.ret = DICT_OK)
       => Deleted(StepIfRehashing(m), m', last'.key)]_vars

\* An inner node of a chain was deleted from a dict that is still rehashing.
C3_Witness ==
    /\ last.op = "dictDelete" /\ last.ret = DICT_OK
    /\ last.prevHe # NULL
    /\ dictIsRehashing(m)
    /\ m.ht[0].used > 0

\* ---------------------------------------------------------------- rehashing
\* C6: a dictRehash(d, 1) call on a rehashing dict leaves the value dictFind
\* returns for every key, and dictSize(d), as they were.
C6_RehashKeeps ==
    [][(last'.op = "dictRehash" /\ dictIsRehashing(m))
       => (/\ Running(m')
           /\ dictSize(m') = dictSize(m)
           /\ \A k \in Keys : FindVal(m', k) = FindVal(m, k))]_vars

\* A rehash step has left entries in both tables of a dict holding NKeys keys.
C6_Witness ==
    /\ last.op = "dictRehash"
    /\ run.active /\ run.calls > 0
    /\ m.ht[0].used > 0 /\ m.ht[1].used > 0
    /\ dictSize(m) = NKeys
    /\ \A k \in Keys : FindVal(m, k) = ValOf(k)

\* The migration is over: rehashidx is -1 and table 1 is reset.
Migrated(M) == M.rehashidx = -1 /\ M.ht[1] = _dictReset

\* Every key of L is found with its value, and no other key is found.
Holds(M, L) ==
    \A k \in Keys : FindVal(M, k) = IF k \in L THEN ValOf(k) ELSE NULL

\* C7 as stated: S consecutive dictRehash(d, 1) calls after the arming
\* dictExpand, S the number of buckets of table 0, complete the migration and
\* preserve every mapping.
C7_AsStated ==
    (run.active /\ run.calls = run.size0) => (Migrated(m) /\ Holds(m, live))

\* C7: the migration is complete after exactly one call more than table 0 had
\* non-empty buckets, hence after S + 1 calls at the latest, and after S calls
\* when some bucket was empty; every mapping is preserved throughout.
C7_RehashCompletes ==
    run.active
        => /\ Running(m)
           /\ Holds(m, live)
           /\ Migrated(m) <=> (run.calls > run.filled)
           /\ (run.calls = run.size0 + 1 => Migrated(m))

\* The call after S calls completed a migration of S non-empty buckets.
C7_Witness ==
    /\ run.active /\ run.calls = run.size0 + 1
    /\ run.filled = run.size0
    /\ Migrated(m)
    /\ live # {}

\* ----------------------------------------------------------------- scanning
\* rev, v = ((v >> s) & mask) | ((v << s) & ~mask)
RevSwap(v, mask, s) ==
    W64Or(W64And(W64Shr(v, s), mask), W64And(W64Shl(v, s), W64Not(mask)))

\* rev, the loop while ((s >>= 1) > 0), entered with the s and the mask of
\* the round before: mask ^= (mask << s), then the swap.
RECURSIVE RevLoop(_, _, _)
RevLoop(v, mask, s) ==
    IF s \div 2 = 0 THEN v
    ELSE Let(W64Xor(mask, W64Shl(mask, s \div 2)),
             LAMBDA mk : Let(RevSwap(v, mk, s \div 2),
                             LAMBDA w : RevLoop(w, mk, s \div 2)))

\* rev: the bits of an unsigned long of 64 bits, reversed.
rev(v) == RevLoop(v, W64Ones, 64)

\* ScanAdvance without v |= ~m0: the bits above the sizemask stay clear, and
\* the increment of the reversed cursor lands in them.
ScanAdvanceUnmasked(v, m0) ==
    rev(W64Add(rev(v), W64(1)))

\* dictScan, v |= ~m0; v = rev(v); v++; v = rev(v);
ScanAdvance(v, m0) ==
    rev(W64Add(rev(W64Or(v, W64Not(W64(m0)))), W64(1)))

\* ScanAdvance for the cursors from v up to n, in a table of sizemask m0.
RECURSIVE AdvanceRow(_, _, _)
AdvanceRow(m0, v, n) ==
    IF v > n THEN <<>>
    ELSE <<ScanAdvance(W64(v), m0)>> \o AdvanceRow(m0, v + 1, n)

\* The sizemasks of tables of 4, 8 and 16 buckets, and ScanAdvance computed
\* once for each of them and for each cursor that fits twice such a table.
AdvanceMasks ==
    <<DICT_HT_INITIAL_SIZE - 1, 2 * DICT_HT_INITIAL_SIZE - 1, 4 * DICT_HT_INITIAL_SIZE - 1>>
AdvanceMax == 8 * DICT_HT_INITIAL_SIZE - 1
AdvanceRows ==
    <<AdvanceRow(AdvanceMasks[1], 0, AdvanceMax),
      AdvanceRow(AdvanceMasks[2], 0, AdvanceMax),
      AdvanceRow(AdvanceMasks[3], 0, AdvanceMax)>>

\* ScanAdvance(v, m0), read from AdvanceRows where they hold it.
ScanAdvanced(v, m0) ==
    IF W64Small(v) /\ W64Int(v) <= AdvanceMax /\ \E j \in 1..3 : AdvanceMasks[j] = m0
    THEN AdvanceRows[CHOOSE j \in 1..3 : AdvanceMasks[j] = m0][W64Int(v) + 1]
    ELSE ScanAdvance(v, m0)

\* dictScan, while (de) { fn(privdata, de); de = de->next; }: what the
\* visitor has counted once the chain from de on is walked.
RECURSIVE ScanChain(_, _, _, _)
ScanChain(M, de, visits, fuel) ==
    IF de = NULL THEN [st |-> "ok", visits |-> visits]
    ELSE IF fuel = 0 THEN [st |-> "hang", visits |-> visits]
    ELSE IF ~M.heap[de].alloc THEN [st |-> "ub", visits |-> visits]
    ELSE ScanChain(M, M.heap[de].next,
                   IF M.heap[de].key \in DOMAIN visits
                   THEN [visits EXCEPT ![M.heap[de].key] = IF @ < 2 THEN @ + 1 ELSE @]
                   ELSE visits,
                   fuel - 1)

\* The chain of bucket v & mask of table t.
ScanBucket(M, t, v, visits) ==
    ScanChain(M, M.ht[t].table[W64Int(W64And(v, W64(M.ht[t].sizemask)))], visits, Fuel)

\* dictScan, v = (((v | m0) + 1) & ~m0) | (v & m0)
ScanStep(v, m0) ==
    W64Or(W64And(W64Add(W64Or(v, W64(m0)), W64(1)), W64Not(W64(m0))),
          W64And(v, W64(m0)))

\* A ScanLarger that leaves its loop after the first bucket.
ScanLargerOnce(M, t1, v, m0, c, rounds) ==
    IF c.st # "ok" THEN [st |-> c.st, visits |-> c.visits, v |-> v]
    ELSE Let(ScanBucket(M, t1, v, c.visits),
             LAMBDA c1 : [st |-> c1.st, visits |-> c1.visits, v |-> ScanStep(v, m0)])

\* dictScan, the do ... while (v & (m0 ^ m1)) loop over the buckets of the
\* larger table t1 that expand bucket v & m0 of the smaller one; c is what
\* the walk before left. The loop ends after at most size1 / size0 rounds.
RECURSIVE ScanLarger(_, _, _, _, _, _)
ScanLarger(M, t1, v, m0, c, rounds) ==
    IF c.st # "ok" THEN [st |-> c.st, visits |-> c.visits, v |-> v]
    ELSE IF rounds = 0 THEN [st |-> "hang", visits |-> c.visits, v |-> v]
    ELSE Let(ScanBucket(M, t1, v, c.visits),
             LAMBDA c1 :
                 IF W64And(ScanStep(v, m0), W64(M.ht[t1].sizemask - m0)) = W64Zero
                 THEN [st |-> c1.st, visits |-> c1.visits, v |-> ScanStep(v, m0)]
                 ELSE ScanLarger(M, t1, ScanStep(v, m0), m0, c1, rounds - 1))

\* ScanBoth without the walk over the larger table.
ScanBothSmaller(M, t0, t1, v, visits) ==
    [v |-> v] @@ ScanBucket(M, t0, v, visits)

\* dictScan on a rehashing dict, t0 being the smaller table and t1 the other.
ScanBoth(M, t0, t1, v, visits) ==
    ScanLarger(M, t1, v, M.ht[t0].sizemask, ScanBucket(M, t0, v, visits),
               M.ht[t1].size)

\* dictScan, the walks: the cursor they leave and what the visitor counted.
ScanWalk(M, v, visits) ==
    IF ~dictIsRehashing(M)
    THEN [v |-> v] @@ ScanBucket(M, 0, v, visits)
    ELSE IF M.ht[0].size > M.ht[1].size
    THEN ScanBoth(M, 1, 0, v, visits)
    ELSE ScanBoth(M, 0, 1, v, visits)

\* The sizemask m0 of dictScan: that of the smaller table when rehashing.
ScanMask(M) ==
    IF dictIsRehashing(M) /\ M.ht[0].size > M.ht[1].size
    THEN M.ht[1].sizemask ELSE M.ht[0].sizemask

\* A dictScan that returns the cursor after its walks incremented by one.
ScanResultPlain(M, w) ==
    IF w.st # "ok" THEN [m |-> Stop(M, w.st), ret |-> W64Zero, visits |-> w.visits]
    ELSE [m |-> M, ret |-> W64Add(w.v, W64(1)), visits |-> w.visits]

\* dictScan once the walks are done.
ScanResult(M, w) ==
    IF w.st # "ok" THEN [m |-> Stop(M, w.st), ret |-> W64Zero, visits |-> w.visits]
    ELSE [m |-> M, ret |-> ScanAdvanced(w.v, ScanMask(M)), visits |-> w.visits]

\* A dictScan that makes a rehash step first, as the lookups do.
ScanStepping(M, v, visits) ==
    IF dictSize(M) = 0 THEN [m |-> M, ret |-> W64Zero, visits |-> visits]
    ELSE ScanResult(StepIfRehashing(M), ScanWalk(StepIfRehashing(M), v, visits))

\* dictScan(d, v, fn, privdata): visits is what fn had counted before.
dictScan(M, v, visits) ==
    IF dictSize(M) = 0 THEN [m |-> M, ret |-> W64Zero, visits |-> visits]
    ELSE ScanResult(M, ScanWalk(M, v, visits))

\* The scan record as the next dictScan call finds it: a scan that is over
\* gives way to a new one, begun with cursor 0.
ScanEnter ==
    IF scan.phase = "on" THEN scan
    ELSE [NoScan EXCEPT !.plain = ~dictIsRehashing(m) /\ dictSize(m) > 0]

\* dictScan with the cursor the call before returned, 0 to begin with; val
\* records the cursor given, -1 for one above every table size.
Scan ==
    /\ Running(m)
    /\ \E r \in {dictScan(Enter, ScanEnter.v, ScanEnter.visits)} :
         /\ m' = r.m
         /\ last' = [NoCall EXCEPT !.op = "dictScan",
                                   !.val = IF W64Small(ScanEnter.v)
                                           THEN W64Int(ScanEnter.v) ELSE -1]
         /\ UNCHANGED live
         /\ run' = NoRun
         /\ scan' = [phase |-> IF r.ret = W64Zero THEN "done" ELSE "on",
                     v |-> r.ret,
                     visits |-> r.visits,
                     calls |-> IF ScanEnter.plain THEN ScanEnter.calls + 1 ELSE 0,
                     seen |-> IF ScanEnter.plain
                              THEN ScanEnter.seen \cup
                                   {W64Int(W64And(ScanEnter.v, W64(ScanMask(m))))}
                              ELSE {},
                     plain |-> ScanEnter.plain]

\* A call other than dictScan was made: the scan under way is no longer plain.
ScanTouched == [scan EXCEPT !.plain = FALSE, !.calls = 0, !.seen = {}]

\* Populated dicts, scanned while the table is grown, shrunk and rehashed.
InitScan ==
    /\ \E size \in LoadedSizes, ks \in SUBSET Keys, order \in {"up", "down"} :
          /\ Cardinality(ks) >= NKeys - 1
          /\ m = dictLoaded("trap", size, ks, order)
          /\ live = ks
    /\ last = NoCall
    /\ run = NoRun
    /\ scan = NoScan
    /\ it = NoIter

NextScan ==
    /\ \/ Scan
       \/ Expand(LowAddr(m)) /\ scan' = ScanTouched
       \/ Resize(LowAddr(m)) /\ scan' = ScanTouched
       \/ Rehash /\ scan' = ScanTouched
    /\ UNCHANGED it

SpecScan == InitScan /\ [][NextScan]_vars

C9_ScanExact ==
    (scan.phase # "idle" /\ scan.plain)
        => /\ Running(m)
           /\ (scan.phase = "done") <=> (scan.calls = m.ht[0].size)
           /\ Cardinality(scan.seen) = scan.calls
           /\ scan.phase = "done"
                => /\ scan.seen = 0..(m.ht[0].size - 1)
                   /\ \A k \in Keys : scan.visits[k] = IF k \in live THEN 1 ELSE 0

\* A plain scan of a table of 8 buckets is over.
C9_Witness ==
    /\ scan.phase = "done" /\ scan.plain
    /\ scan.calls = 2 * DICT_HT_INITIAL_SIZE
    /\ Cardinality(live) = NKeys

\* ------------------------------------------------------------- iteration
\* dictGetIterator or dictGetSafeIterator, by a caller that holds none.
GetIterator(iters) ==
    /\ Running(m)
    /\ it.state # "live"
    /\ \E i \in iters :
         /\ it' = [NoIter EXCEPT !.state = "live", !.i = i]
         /\ last' = [NoCall EXCEPT !.op = "dictGetIterator", !.val = i.safe]
    /\ m' = Enter
    /\ UNCHANGED live
    /\ run' = NoRun

\* dictNext on the iterator held.
Advance ==
    /\ Running(m)
    /\ it.state = "live"
    /\ \E r \in {dictNext(Enter, it.i)} :
         /\ m' = r.m
         /\ last' = [NoCall EXCEPT !.op = "dictNext", !.ret = Seen(r)]
         /\ it' = [it EXCEPT !.i = r.it,
                             !.integers = IF Advanced(it.i) \/ it.i.safe # 0 THEN @
                                          ELSE FingerprintIntegers(m),
                             !.calls = @ + 1]
    /\ UNCHANGED live
    /\ run' = NoRun

\* dictReleaseIterator on the iterator held.
Release ==
    /\ Running(m)
    /\ it.state = "live"
    /\ m' = dictReleaseIterator(Enter, it.i)
    /\ last' = [NoCall EXCEPT !.op = "dictReleaseIterator"]
    /\ it' = [it EXCEPT !.state = "released"]
    /\ UNCHANGED live
    /\ run' = NoRun

\* The iterator record once a call other than dictNext was made.
Counted == [it EXCEPT !.calls = @ + 1]

\* The iterator record once a dictAdd, dictDelete or dictExpand returned ret.
Noted(ret) ==
    IF ret # DICT_OK THEN Counted
    ELSE IF Advanced(it.i) THEN [Counted EXCEPT !.late = IF @ < 2 THEN @ + 1 ELSE @]
    ELSE [Counted EXCEPT !.early = IF @ < 2 THEN @ + 1 ELSE @]

\* The caller holds an iterator and makes no more than MaxCalls calls with it.
Holding == it.state = "live" /\ it.calls < MaxCalls

\* Populated dicts, and a caller that gets an unsafe iterator, makes up to
\* MaxCalls calls while it holds it (dictNext, dictAdd, dictDelete, dictExpand,
\* dictRehash), and releases it; zcalloc returns any free address.
InitIter ==
    /\ \E size \in LoadedSizes, ks \in SUBSET Keys, order \in {"up", "down"} :
          /\ Cardinality(ks) >= NKeys - 2
          /\ m = dictLoaded("trap", size, ks, order)
          /\ live = ks
    /\ last = NoCall
    /\ run = NoRun
    /\ scan = NoScan
    /\ it = NoIter

NextIter ==
    /\ \/ it.state = "none" /\ GetIterator({dictGetIterator})
       \/ Holding /\ Advance
       \/ Release
       \/ Holding /\ Add(LowAddr(m), LowEntry(m), FewKeys) /\ it' = Noted(last'.ret)
       \/ Holding /\ Delete /\ it' = Noted(last'.ret)
       \/ Holding /\ Expand(FreeAddrs(m)) /\ it' = Noted(last'.ret)
       \/ Holding /\ Rehash /\ it' = Counted
    /\ UNCHANGED scan

SpecIter == InitIter /\ [][NextIter]_vars

Looked ==
    [it EXCEPT !.stepped = @ \/ (it.state = "live" /\ Advanced(it.i) /\ dictIsRehashing(m))]

\* The caller holds an iterator and no lookup of its has made a rehash step
\* after the first dictNext.
Looking == it.state = "live" /\ ~it.stepped

\* The iteration has not returned NULL yet.
Unfinished == it.state = "live" /\ it.i.index < m.ht[it.i.table].size

\* Populated dicts of NKeys - 1 keys and more, made rehashing or not by
\* dictExpand and dictRehash, and a caller that then gets an unsafe iterator
\* and, until it releases it, calls dictNext and dictFetchValue (of a key of
\* FewKeys) only, with no lookup after the one that makes the release fail.
InitLook ==
    /\ \E size \in LoadedSizes, ks \in SUBSET Keys :
          /\ Cardinality(ks) >= NKeys - 1
          /\ m = dictLoaded("trap", size, ks, "up")
          /\ live = ks
    /\ last = NoCall
    /\ run = NoRun
    /\ scan = NoScan
    /\ it = NoIter

NextLook ==
    /\ \/ it.state = "none" /\ Expand(LowAddr(m)) /\ UNCHANGED it
       \/ it.state = "none" /\ Rehash /\ UNCHANGED it
       \/ it.state = "none" /\ GetIterator({dictGetIterator})
       \/ Unfinished /\ Advance
       \/ Looking /\ Find /\ last'.key \in FewKeys /\ it' = Looked
       \/ Release
    /\ UNCHANGED scan

SpecLook == InitLook /\ [][NextLook]_vars

\* The statement of C11 as the claim makes it: an unsafe iterator released
\* after dictNext calls and lookups only leaves the process running.
C11_AsStated ==
    (last.op = "dictReleaseIterator" /\ it.i.safe = 0) => Running(m)

\* C11: dictReleaseIterator of an unsafe iterator, with only dictNext calls
\* and lookups made since the caller got it, returns normally, also on a
\* rehashing dict, unless a lookup made after the first dictNext found the
\* dict rehashing: that lookup made a rehash step, and the release ends in
\* redis_assert.
C11_ReleaseClean ==
    (last.op = "dictReleaseIterator" /\ it.i.safe = 0)
        => /\ m.st \in {"ok", "assert"}
           /\ (m.st = "assert") <=> it.stepped

\* An unsafe iterator was advanced more than once on a rehashing dict, with a
\* lookup made before the first dictNext, and released normally.
C11_Witness ==
    /\ last.op = "dictReleaseIterator" /\ it.i.safe = 0
    /\ it.calls >= 2 /\ ~it.stepped
    /\ dictIsRehashing(m)
    /\ Running(m)

\* --------------------------------------------------------------- sampling
\* The counts dictGetRandomKeys is asked for: des has room for that many.
MaxCount == 3

\* The while (he) loop of dictGetRandomKeys: the entries of the chain from he
\* on are stored into des until count of them are stored.
RECURSIVE RandomChain(_, _, _, _)
RandomChain(M, he, des, count) ==
    IF he = NULL THEN [st |-> "ok", des |-> des, done |-> FALSE]
    ELSE IF ~M.heap[he].alloc THEN [st |-> "ub", des |-> des, done |-> FALSE]
    ELSE IF Len(des) + 1 = count
    THEN [st |-> "ok", des |-> Append(des, he), done |-> TRUE]
    ELSE RandomChain(M, M.heap[he].next, Append(des, he), count)

\* The while (size--) loop: size buckets of table j from bucket i on, r being
\* what the buckets before stored.
RECURSIVE RandomBuckets(_, _, _, _, _, _)
RandomBuckets(M, j, i, size, r, count) ==
    IF r.st # "ok" \/ r.done \/ size = 0 THEN r
    ELSE RandomBuckets(M, j, BitAnd(i + 1, M.ht[j].sizemask), size - 1,
                       RandomChain(M, M.ht[j].table[i], r.des, count), count)

\* redis_assert(dictIsRehashing(d) != 0), reached when the walk of a table
\* ended with fewer than count entries stored.
RandomAssert(M, r) ==
    IF r.st = "ok" /\ ~r.done /\ ~dictIsRehashing(M) THEN [r EXCEPT !.st = "assert"]
    ELSE r

\* The body of for (j = 0; j < 2; j++) for table j, random() returning rnd.
RandomTable(M, j, rnd, r, count) ==
    IF r.st # "ok" \/ r.done THEN r
    ELSE RandomAssert(M, RandomBuckets(M, j, BitAnd(rnd, M.ht[j].sizemask),
                                       M.ht[j].size, r, count))

\* One round of while (stored < count): both tables, random() returning r0
\* for table 0 and r1 for table 1.
RandomRound(M, r0, r1, r, count) ==
    RandomTable(M, 1, r1, RandomTable(M, 0, r0, r, count), count)

\* while (stored < count), r being what the rounds before stored and n what
\* the next round stores: a round that stores nothing is followed by such
\* rounds for ever.
RECURSIVE RandomLoop(_, _, _, _, _)
RandomNext(M, r0, r1, r, n, count) ==
    IF n.st = "ok" /\ Len(n.des) = Len(r.des) THEN [r EXCEPT !.st = "hang"]
    ELSE RandomLoop(M, r0, r1, n, count)

RandomLoop(M, r0, r1, r, count) ==
    IF r.st # "ok" \/ r.done THEN r
    ELSE Let(RandomRound(M, r0, r1, r, count),
             LAMBDA n : RandomNext(M, r0, r1, r, n, count))

\* if (dictSize(d) < count) count = dictSize(d): dictSize is an unsigned
\* long, to which a negative count converts as a value above every dictSize.
RandomCount(M, count) ==
    IF UnsignedLess(dictSize(M), count) THEN dictSize(M) ELSE count

RandomResult(M, r) ==
    [m |-> IF r.st = "ok" THEN M ELSE Stop(M, r.st), ret |-> Len(r.des), des |-> r.des]

\* dictGetRandomKeys(d, des, count), random() returning r0 and r1 in turn:
\* the memory afterwards, the number returned and what des holds.
dictGetRandomKeys(M, count, r0, r1) ==
    IF RandomCount(M, count) = 0 THEN [m |-> M, ret |-> 0, des |-> <<>>]
    ELSE RandomResult(M, RandomLoop(M, r0, r1,
             [st |-> "ok", des |-> <<>>, done |-> FALSE], RandomCount(M, count)))

\* dictGetRandomKeys with any count up to MaxCount; random() & sizemask is
\* any bucket of the table.
RandomKeys ==
    /\ Running(m)
    /\ \E count \in 0..MaxCount, r0 \in 0..m.ht[0].sizemask, r1 \in 0..m.ht[1].sizemask :
         \E r \in {dictGetRandomKeys(Enter, count, r0, r1)} :
             /\ m' = r.m
             /\ last' = [NoCall EXCEPT !.op = "dictGetRandomKeys", !.val = count,
                                       !.ret = Seen(r), !.des = r.des]
             /\ UNCHANGED live
             /\ run' = NoRun

\* The program from dictCreate on: up to MaxAdds insertions, table changes
\* and samples.
NextSample ==
    /\ \/ Add(LowAddr(m), FewEntries(m), FewKeys)
       \/ Expand(LowAddr(m))
       \/ Rehash
       \/ RandomKeys
    /\ UNCHANGED <<scan, it>>

SpecSample == Init /\ [][NextSample]_vars

\* The smaller of two numbers.
Min(a, b) == IF a < b THEN a ELSE b

\* C12: dictGetRandomKeys(d, des, count) returns min(count, dictSize(d)) and
\* stores that many entries into des, no entry twice, each of them an entry
\* of the dict that dictFind returns for its key, whatever random() returns
\* and whether the dict is rehashing or not.
C12_RandomKeys ==
    last.op = "dictGetRandomKeys"
        => /\ Running(m)
           /\ last.ret = Min(last.val, dictSize(m))
           /\ Len(last.des) = last.ret
           /\ \A i, j \in 1..Len(last.des) : last.des[i] = last.des[j] => i = j
           /\ \A i \in 1..Len(last.des) :
                /\ last.des[i] \in AllEntries(m)
                /\ Seen(dictFind(m, m.heap[last.des[i]].key)) = last.des[i]

\* ------------------------------------------------------ expand and resize
\* C13: dictExpand(d, size) on a dict that is rehashing, or with size below
\* ht[0].used, returns DICT_ERR and changes nothing of the dict; every other
\* dictExpand returns DICT_OK.
C13_ExpandGuard ==
    [][last'.op = "dictExpand"
       => IF dictIsRehashing(m) \/ last'.val < m.ht[0].used
          THEN last'.ret = DICT_ERR /\ m' = Enter
          ELSE last'.ret = DICT_OK /\ m' # Enter]_vars

\* A dictExpand refused on a dict that is not rehashing: size is below
\* ht[0].used.
C13_Witness ==
    /\ last.op = "dictExpand" /\ last.ret = DICT_ERR
    /\ ~dictIsRehashing(m)
    /\ last.val < m.ht[0].used

\* ------------------------------------------------ insertion of a stored key
\* dictAdd of a key the dict holds.
AddPresent == Add(LowAddr(m), LowEntry(m), Keys) /\ last'.had

\* Populated dicts on which stored keys are inserted again, next to
\* dictDelete, dictExpand and dictRehash.
NextPresent ==
    /\ \/ AddPresent
       \/ Delete
       \/ Expand(LowAddr(m))
       \/ Rehash
    /\ UNCHANGED <<scan, it>>

SpecPresent == InitLoaded /\ [][NextPresent]_vars

\* The keys stored in table t.
KeysOf(M, t) == {M.heap[e].key : e \in TableEntries(M, t)}

\* C14: dictAdd(k, v) of a key k stored in table 0 or, on a rehashing dict,
\* in table 1 returns DICT_ERR; no entry is allocated, the entries of the
\* dict are the same, and so are dictSize and the value stored for k.
C14_AddPresent ==
    [][(last'.op = "dictAdd" /\ last'.had)
       => /\ last'.ret = DICT_ERR
          /\ FreeEntries(m') = FreeEntries(m)
          /\ AllEntries(m') = AllEntries(m)
          /\ dictSize(m') = dictSize(m)
          /\ FindVal(m', last'.key) = FindVal(m, last'.key)
          /\ FindVal(m, last'.key) \in Vals]_vars

\* A dictAdd that returned DICT_ERR for a key stored in table 1 of a
\* rehashing dict whose table 0 still holds entries.
C14_Witness ==
    /\ last.op = "dictAdd" /\ last.had /\ last.ret = DICT_ERR
    /\ dictIsRehashing(m)
    /\ last.key \in KeysOf(m, 1)
    /\ m.ht[0].used > 0

\* ------------------------------------------------------- uniqueness of keys
PeplaceRaw(addrs, ents, keys) ==
    /\ Running(m)
    /\ \E key \in keys, a \in addrs, e \in ents :
         \E r \in {dictPeplaceRaw(Enter, key, a, e)} :
             /\ m' = r.m
             /\ last' = Called("dictPeplaceRaw", key, 0, r)
             /\ UNCHANGED live
             /\ run' = NoRun

\* Populated dicts on which the keys of FewKeys, stored or not, are given to
\* dictAdd, dictReplace and dictPeplaceRaw, next to dictDelete, dictExpand
\* and dictRehash.
NextInsert ==
    /\ \/ Add(LowAddr(m), LowEntry(m), FewKeys)
       \/ Replace(LowAddr(m), LowEntry(m), FewKeys)
       \/ PeplaceRaw(LowAddr(m), LowEntry(m), FewKeys)
       \/ Delete
       \/ Expand(LowAddr(m))
       \/ Rehash
    /\ UNCHANGED <<scan, it>>

SpecInsert == InitLoaded /\ [][NextInsert]_vars

\* C15: in every state no key is held by more than one entry of the two
\* tables together, also while the dict is rehashing and after dictAdd,
\* dictReplace or dictPeplaceRaw was called with a key one of the tables
\* holds.
C15_KeysUnique == \A key \in Keys : Cardinality(EntriesOf(m, key)) <= 1

\* dictPeplaceRaw was called with a key stored in table 1 of a rehashing dict
\* whose table 0 still holds entries.
C15_Witness ==
    /\ last.op = "dictPeplaceRaw" /\ last.had
    /\ Running(m) /\ dictIsRehashing(m)
    /\ last.key \in KeysOf(m, 1)
    /\ m.ht[0].used > 0
    /\ Cardinality(EntriesOf(m, last.key)) = 1

\* ----------------------------------------------------- emptying, the tables
\* _dictClear, the while (he) loop: each entry of the chain is given to the
\* destructors and freed, used is decremented. An entry met again was freed.
RECURSIVE ClearChain(_, _, _)
ClearChain(M, t, he) ==
    IF he = NULL \/ ~Running(M) THEN M
    ELSE IF ~M.heap[he].alloc THEN Stop(M, "ub")
    ELSE ClearChain(
             [dictFreeVal(dictFreeKey(M, M.heap[he].key), M.heap[he].val)
                 EXCEPT !.heap[he] = [alloc |-> FALSE, key |-> Uninit,
                                      val |-> Uninit, next |-> Uninit],
                        !.ht[t].used = @ - 1],
             t, M.heap[he].next)

\* _dictClear, for (i = 0; i < ht->size && ht->used > 0; i++); no callback.
RECURSIVE ClearBuckets(_, _, _)
ClearBuckets(M, t, i) ==
    IF ~Running(M) \/ ~(i < M.ht[t].size /\ M.ht[t].used # 0) THEN M
    ELSE ClearBuckets(ClearChain(M, t, M.ht[t].table[i]), t, i + 1)

\* _dictClear, zfree(ht->table); _dictReset(ht);
ClearReset(M, t) ==
    IF ~Running(M) THEN M ELSE [M EXCEPT !.ht[t] = _dictReset]

_dictClear(M, t) == ClearReset(ClearBuckets(M, t, 0), t)

\* A dictEmpty that leaves rehashidx as it is.
EmptyKeepIndex(M) ==
    IF ~Running(M) THEN M ELSE [M EXCEPT !.iterators = 0]

\* dictEmpty, d->rehashidx = -1; d->iterators = 0;
EmptyReset(M) ==
    IF ~Running(M) THEN M ELSE [M EXCEPT !.rehashidx = -1, !.iterators = 0]

\* dictEmpty(d, NULL)
dictEmpty(M) == EmptyReset(_dictClear(_dictClear(M, 0), 1))

\* dictEmpty(d, NULL); val records rehashidx as the call found it.
Empty ==
    /\ Running(m)
    /\ m' = dictEmpty(Enter)
    /\ last' = [NoCall EXCEPT !.op = "dictEmpty", !.val = m.rehashidx, !.log = m'.log]
    /\ live' = {}
    /\ run' = NoRun

\* Fresh and populated dicts, and every call that installs, swaps or frees a
\* table, next to up to MaxAdds insertions and to deletions.
InitTables == Init \/ InitLoaded

NextTables ==
    /\ \/ Add(LowAddr(m), FewEntries(m), FewKeys)
       \/ Delete
       \/ Expand(LowAddr(m))
       \/ Resize(LowAddr(m))
       \/ Rehash
       \/ Empty
    /\ UNCHANGED <<scan, it>>

SpecTables == InitTables /\ [][NextTables]_vars

\* C16: while the process runs, rehashidx differs from -1 exactly when table
\* 1 has a bucket array (ht[1].size > 0); with rehashidx == -1 table 1 has
\* size 0, used 0 and no array.
C16_RehashingHasTable ==
    Running(m)
        => /\ dictIsRehashing(m) <=> m.ht[1].size > 0
           /\ ~dictIsRehashing(m) => m.ht[1] = _dictReset

\* dictEmpty was called on a dict under way in a rehash and destroyed three
\* entries or more: the dict is no longer rehashing and table 1 is gone.
C16_Witness ==
    /\ last.op = "dictEmpty" /\ Running(m)
    /\ last.val > 0 /\ Len(last.log) >= 6
    /\ ~dictIsRehashing(m) /\ m.ht[1] = _dictReset

\* ------------------------------------------------- table sizes (64 bit)
\* The sizes below are unsigned long words; the bucket array of a table of a
\* size given as a word is not represented.
UINT32_MAX == <<65535, 65535, 0, 0>>

\* a < b for two unsigned words.
W64Less(a, b) ==
    \/ a[4] < b[4]
    \/ a[4] = b[4] /\ a[3] < b[3]
    \/ a[4] = b[4] /\ a[3] = b[3] /\ a[2] < b[2]
    \/ a[4] = b[4] /\ a[3] = b[3] /\ a[2] = b[2] /\ a[1] < b[1]

\* --a, ++a
W64Dec(a) == W64Add(a, W64Ones)
W64Inc(a) == W64Add(a, W64(1))

\* size |= size >> k
SmearWord(size, k) == W64Or(size, W64Shr(size, k))

\* _dictNextPower on an unsigned long of 64 bits.
NextPowerWord(size) ==
    IF W64Less(size, W64(DICT_HT_INITIAL_SIZE)) THEN W64(DICT_HT_INITIAL_SIZE)
    ELSE IF W64Less(UINT32_MAX, size) THEN UINT32_MAX
    ELSE W64Inc(SmearWord(SmearWord(SmearWord(SmearWord(SmearWord(
             W64Dec(size), 1), 2), 4), 8), 16))

\* The dictht n of dictExpand for a realsize given as a word.
NewTableWord(realsize, a) ==
    [table |-> <<>>, addr |-> a, size |-> realsize,
     sizemask |-> W64Dec(realsize), used |-> 0]

\* _dictReset for a table whose fields are words.
ResetWord ==
    [table |-> <<>>, addr |-> NULL, size |-> W64Zero, sizemask |-> W64Zero, used |-> 0]

\* dictExpand(d, size) for a size given as a word, on a dict without
\* entries; a is the address zcalloc returns, NULL when calloc fails and the
\* handler of zmalloc ends the process.
dictExpandWord(M, size, a) ==
    IF dictIsRehashing(M) \/ W64Less(size, W64(M.ht[0].used))
    THEN [m |-> M, ret |-> DICT_ERR]
    ELSE IF a = NULL THEN [m |-> Stop(M, "oom"), ret |-> NoReturn]
    ELSE IF M.ht[0].addr = NULL
    THEN [m |-> [M EXCEPT !.ht[0] = NewTableWord(NextPowerWord(size), a)],
          ret |-> DICT_OK]
    ELSE [m |-> [M EXCEPT !.ht[1] = NewTableWord(NextPowerWord(size), a),
                          !.rehashidx = 0],
          ret |-> DICT_OK]

\* The largest k for which 2^k - 1, 2^k and 2^k + 1 are asked of dictExpand.
MaxBits == 33

\* The sizes asked of dictExpand: those around the four lowest powers of two
\* and around the four highest up to 2^MaxBits.
WordSizes ==
    UNION {{W64Dec(W64Shl(W64(1), k)), W64Shl(W64(1), k), W64Inc(W64Shl(W64(1), k))} :
           k \in (0..3) \cup ((MaxBits - 3)..MaxBits)}

\* A dict without entries whose tables have word fields.
InitWord ==
    /\ m = [dictCreate("trap") EXCEPT !.ht = [t \in 0..1 |-> ResetWord]]
    /\ last = NoCall
    /\ live = {}
    /\ run = NoRun
    /\ scan = NoScan
    /\ it = NoIter

ExpandWord ==
    /\ Running(m)
    /\ \E size \in WordSizes, a \in LowAddr(m) \cup {NULL} :
         \E r \in {dictExpandWord(m, size, a)} :
             /\ m' = r.m
             /\ last' = [NoCall EXCEPT !.op = "dictExpand", !.val = size, !.ret = r.ret]
    /\ UNCHANGED <<live, run>>

\* The first dictExpand installs table 0, the second one table 1.
NextWord == ExpandWord /\ UNCHANGED <<scan, it>>

SpecWord == InitWord /\ [][NextWord]_vars

\* The word is a power of two.
PowerOfTwo(size) == size # W64Zero /\ W64And(size, W64Dec(size)) = W64Zero

\* C17: the size of each table is 0 or a power of two that is at least
\* DICT_HT_INITIAL_SIZE, and sizemask is size - 1, whatever size dictExpand
\* was called with, sizes above 2^32 - 1 included.
C17_SizePowerOfTwo ==
    \A t \in 0..1 :
        \/ m.ht[t].size = W64Zero /\ m.ht[t].sizemask = W64Zero
        \/ /\ PowerOfTwo(m.ht[t].size)
           /\ ~W64Less(m.ht[t].size, W64(DICT_HT_INITIAL_SIZE))
           /\ m.ht[t].sizemask = W64Dec(m.ht[t].size)

\* ------------------------------------------- the value dictRehash returns
\* The steps asked of one dictRehash call.
MaxSteps == 2

\* What the caller reads as the value of a call that returned r. A dictRehash
\* that left its loop without a return statement yields whatever the build
\* makes of it: 0, 1, or NoReturn for anything else.
Returned(r) ==
    IF Running(r.m) /\ r.ret = NoReturn THEN {0, 1, NoReturn} ELSE {Seen(r)}

\* dictRehash(d, n)
RehashSteps ==
    /\ Running(m)
    /\ \E n \in 1..MaxSteps :
         \E r \in {dictRehash(Enter, n)} :
             /\ m' = r.m
             /\ \E ret \in Returned(r) :
                  last' = [NoCall EXCEPT !.op = "dictRehash", !.val = n, !.ret = ret]
    /\ UNCHANGED live
    /\ run' = NoRun

\* Populated dicts that are expanded, rehashed n buckets at a time and
\* deleted from.
NextRehash ==
    /\ \/ RehashSteps
       \/ Expand(LowAddr(m))
       \/ Delete
    /\ UNCHANGED <<scan, it>>

SpecRehash == InitLoaded /\ [][NextRehash]_vars

\* C18: dictRehash(d, n) on a dict that is not rehashing returns 0 and
\* changes nothing; on a rehashing dict it returns 0 when the call ended the
\* rehash and 1 when the rehash is still under way after the n steps.
C18_RehashReturn ==
    [][last'.op = "dictRehash"
       => IF ~dictIsRehashing(m) THEN last'.ret = 0 /\ m' = Enter
          ELSE IF ~dictIsRehashing(m') THEN last'.ret = 0
          ELSE last'.ret = 1]_vars

\* ------------------------------------------------------------- dictResize
\* Fresh and populated dicts on which resizing is switched off and on, next
\* to dictResize, dictExpand, dictRehash and dictDelete.
NextResize ==
    /\ \/ Resize(LowAddr(m))
       \/ SetResize
       \/ Expand(LowAddr(m))
       \/ Rehash
       \/ Delete
    /\ UNCHANGED <<scan, it>>

SpecResize == InitTables /\ [][NextResize]_vars

\* The smallest power of two that is at least n, for n up to 64.
LeastPower(n) ==
    CHOOSE p \in {2 ^ k : k \in 0..6} :
        p >= n /\ \A q \in {2 ^ k : k \in 0..6} : q >= n => p <= q

\* The table a successful dictExpand fills: table 0 of a dict without one,
\* else table 1.
NewTableOf(M) == IF M.ht[0].addr = NULL THEN 0 ELSE 1

\* C19: dictResize(d) returns DICT_ERR and changes nothing when resizing is
\* disabled or the dict is rehashing; otherwise it returns DICT_OK and the
\* new table has no entries and the smallest power of two that is at least
\* max(ht[0].used, DICT_HT_INITIAL_SIZE) as its size.
C19_ResizeGuard ==
    [][last'.op = "dictResize"
       => IF m.dict_can_resize = 0 \/ dictIsRehashing(m)
          THEN last'.ret = DICT_ERR /\ m' = Enter
          ELSE /\ last'.ret = DICT_OK
               /\ m'.ht[NewTableOf(m)].size
                    = LeastPower(IF m.ht[0].used > DICT_HT_INITIAL_SIZE
                                 THEN m.ht[0].used ELSE DICT_HT_INITIAL_SIZE)
               /\ m'.ht[NewTableOf(m)].sizemask = m'.ht[NewTableOf(m)].size - 1
               /\ m'.ht[NewTableOf(m)].used = 0
               /\ dictIsRehashing(m') <=> NewTableOf(m) = 1
               /\ m'.ht[0].used = m.ht[0].used]_vars

\* dictResize returned DICT_OK on a dict of 5 entries: table 1 has 8 buckets.
C19_Witness ==
    /\ last.op = "dictResize" /\ last.ret = DICT_OK
    /\ m.ht[0].used = 5 /\ m.ht[1].size = 8 /\ m.rehashidx = 0

\* ------------------------------------------------ the link of a new entry
\* The memory of dictAddRaw(d, key) once its rehash step and the growth
\* check of _dictKeyIndex are done, zcalloc returning the lowest free address.
Grown(M) ==
    _dictExpandIfNeeded(StepIfRehashing(M), CHOOSE a \in LowAddr(M) : TRUE).m

\* The table dictAddRaw inserts into, and the bucket of key in it.
AddTable(G) == IF dictIsRehashing(G) THEN 1 ELSE 0
AddBucket(G, key) == BitAnd(dictHashKey(key), G.ht[AddTable(G)].sizemask)

\* Entry e is linked at the head of the bucket of key in M1, G being the
\* memory before the link: the bucket holds e, e is followed by the head G
\* had, the entries of that chain are as they were, and used of that table
\* alone is one more.
LinkedAtHead(G, M1, key, e) ==
    /\ M1.ht[AddTable(G)].table[AddBucket(G, key)] = e
    /\ M1.heap[e].next = G.ht[AddTable(G)].table[AddBucket(G, key)]
    /\ \A f \in ChainEntries(G, G.ht[AddTable(G)].table[AddBucket(G, key)], Fuel) :
           M1.heap[f] = G.heap[f]
    /\ M1.ht[AddTable(G)].used = G.ht[AddTable(G)].used + 1
    /\ M1.ht[1 - AddTable(G)].used = G.ht[1 - AddTable(G)].used

\* C20: a dictAddRaw that returns an entry (under a dictAdd that returns
\* DICT_OK) has linked it at the head of the bucket of the key, in table 1
\* when the dict is rehashing after the rehash step and the growth check,
\* else in table 0.
C20_AddRawLinksHead ==
    [][(last'.op = "dictAdd" /\ last'.ret = DICT_OK)
       => \E e \in FreeEntries(m) \ FreeEntries(m') :
              LinkedAtHead(Grown(Enter), m', last'.key, e)]_vars

\* ------------------------------------------- the overwrite of dictReplace
\* C21: a dictReplace(k, v) of a key the dict holds stores v in the entry of
\* k and calls the value destructor once, on the value the entry held before,
\* and on nothing else (ReplaceSet stores before it calls the destructor).
C21_ReplaceOverwrites ==
    [][(last'.op = "dictReplace" /\ last'.had)
       => /\ Running(m')
          /\ FindVal(m', last'.key) = last'.val
          /\ last'.log = << <<"val", FindVal(m, last'.key)>> >>]_vars

\* ------------------------------------------------------- one rehash step
\* The first bucket of table 0 at rehashidx or after it that holds a chain.
FirstFilled(M) == Lowest({b \in Filled(M) : b >= M.rehashidx})

\* The bucket of table 1 the key of entry e hashes to.
NewBucket(M, e) == BitAnd(dictHashKey(M.heap[e].key), M.ht[1].sizemask)

\* M1 is M with the chain S of bucket b of table 0 moved to table 1: bucket b
\* is empty and every other bucket of table 0 is as it was, rehashidx is
\* b + 1, the used counts have changed by the number of entries of S, and
\* table 1 holds the entries it held and those of S, each in the bucket its
\* key hashes to, with its key and its value.
BucketMoved(M, M1, b, S) ==
    /\ Running(M1)
    /\ M1.rehashidx = b + 1
    /\ DOMAIN M1.ht[0].table = DOMAIN M.ht[0].table
    /\ \A i \in DOMAIN M.ht[0].table :
           M1.ht[0].table[i] = IF i = b THEN NULL ELSE M.ht[0].table[i]
    /\ M1.ht[0].used = M.ht[0].used - Cardinality(S)
    /\ M1.ht[1].used = M.ht[1].used + Cardinality(S)
    /\ TableEntries(M1, 1) = TableEntries(M, 1) \cup S
    /\ \A e \in TableEntries(M1, 1) :
           /\ e \in ChainEntries(M1, M1.ht[1].table[NewBucket(M, e)], Fuel)
           /\ M1.heap[e].key = M.heap[e].key
           /\ M1.heap[e].val = M.heap[e].val
    /\ M1.ht[0].size = M.ht[0].size /\ M1.ht[1].size = M.ht[1].size

\* C22: a dictRehash(d, 1) on a rehashing dict whose table 0 holds entries
\* moves the whole chain of one bucket, the first non-empty bucket of table 0
\* at rehashidx or after it, to table 1, each entry to the bucket
\* hash(key) & ht[1].sizemask; ht[0].used goes down and ht[1].used up by one
\* for each entry moved; the bucket is left empty, rehashidx is one past it,
\* and no other bucket of table 0 changes.
C22_RehashStep ==
    [][(last'.op = "dictRehash" /\ dictIsRehashing(m) /\ m.ht[0].used # 0)
       => /\ FirstFilled(m) \in Filled(m)
          /\ BucketMoved(m, m', FirstFilled(m),
                         ChainEntries(m, m.ht[0].table[FirstFilled(m)], Fuel))]_vars

\* The first step after the dictExpand skipped an empty bucket and moved a
\* chain of two entries or more, and table 0 still holds entries.
C22_Witness ==
    /\ last.op = "dictRehash" /\ run.active /\ run.calls = 1
    /\ m.rehashidx >= 2
    /\ m.ht[1].used >= 2
    /\ m.ht[0].used > 0

\* ------------------------------------------ the bounds of a rehash step
\* C23: in every state the program reaches by dictAdd, dictReplace,
\* dictDelete, dictExpand and dictRehash calls, a rehash step made next
\* passes redis_assert(ht[0].size > rehashidx) and its loop over the empty
\* buckets stops inside table 0: the step leaves the process running.
C23_RehashInBounds ==
    (Running(m) /\ dictIsRehashing(m)) => Running(dictRehash(m, 1).m)

\* ------------------------------------------ the table dictExpand installs
\* Table T is an array of buckets that are all empty, of a power of two that
\* is at least size and DICT_HT_INITIAL_SIZE, with used 0.
EmptyTable(T, size) ==
    /\ T.addr # NULL
    /\ T.size = LeastPower(IF size > DICT_HT_INITIAL_SIZE THEN size
                           ELSE DICT_HT_INITIAL_SIZE)
    /\ T.sizemask = T.size - 1
    /\ DOMAIN T.table = 0..(T.size - 1)
    /\ \A b \in DOMAIN T.table : T.table[b] = NULL
    /\ T.used = 0

\* C24: a dictExpand(d, size) that returns DICT_OK on a dict without a table
\* 0 installs the new table, all buckets empty, as table 0 and leaves
\* rehashidx at -1; on a dict with a table 0 it installs it as table 1 with
\* used 0 and sets rehashidx to 0, and table 0, its used count and the
\* entries are as they were.
C24_ExpandInstalls ==
    [][(last'.op = "dictExpand" /\ last'.ret = DICT_OK)
       => IF m.ht[0].addr = NULL
          THEN /\ EmptyTable(m'.ht[0], last'.val)
               /\ m'.rehashidx = -1
               /\ m'.ht[1] = m.ht[1]
               /\ m'.heap = m.heap
          ELSE /\ EmptyTable(m'.ht[1], last'.val)
               /\ m'.rehashidx = 0
               /\ m'.ht[0] = m.ht[0]
               /\ m'.heap = m.heap]_vars

\* dictExpand has installed a table 1 of 8 buckets next to a table 0 that
\* holds three entries or more.
C24_Witness ==
    /\ last.op = "dictExpand" /\ last.ret = DICT_OK
    /\ m.rehashidx = 0
    /\ m.ht[0].used >= 3 /\ Cardinality(TableEntries(m, 0)) = m.ht[0].used
    /\ m.ht[1].size = 2 * DICT_HT_INITIAL_SIZE /\ m.ht[1].used = 0

\* ------------------------------------------------- the automatic rehash step
\* The values random() is taken to return: enough for every bucket of two
\* tables of 2 * DICT_HT_INITIAL_SIZE buckets.
RandomDraws == 0..(4 * DICT_HT_INITIAL_SIZE - 1)

\* dictGetRandomKey, the bucket head a draw selects: bucket
\* random() % (ht[0].size + ht[1].size) of the two tables laid end to end
\* when rehashing, else bucket random() & ht[0].sizemask of table 0.
RandomHead(M, rnd) ==
    IF dictIsRehashing(M)
    THEN IF rnd % dictSlots(M) >= M.ht[0].size
         THEN M.ht[1].table[(rnd % dictSlots(M)) - M.ht[0].size]
         ELSE M.ht[0].table[rnd % dictSlots(M)]
    ELSE M.ht[0].table[BitAnd(rnd, M.ht[0].sizemask)]

\* The draws that end the do ... while (he == NULL) loop.
LastDraws(M) == {rnd \in RandomDraws : RandomHead(M, rnd) # NULL}

\* dictGetRandomKey, while (he) { he = he->next; listlen++; }
RECURSIVE ChainLength(_, _, _)
ChainLength(M, he, fuel) ==
    IF he = NULL THEN [st |-> "ok", len |-> 0]
    ELSE IF fuel = 0 THEN [st |-> "hang", len |-> 0]
    ELSE IF ~M.heap[he].alloc THEN [st |-> "ub", len |-> 0]
    ELSE [ChainLength(M, M.heap[he].next, fuel - 1) EXCEPT !.len = @ + 1]

\* dictGetRandomKey, while (listele--) he = he->next;
RECURSIVE ChainAt(_, _, _)
ChainAt(M, he, listele) ==
    IF listele = 0 THEN he ELSE ChainAt(M, M.heap[he].next, listele - 1)

\* dictGetRandomKey from the chain at orighe on, c being its length and rnd
\* what random() returns for listele.
RandomPick(M, orighe, c, rnd) ==
    IF c.st # "ok" THEN [m |-> Stop(M, c.st), ret |-> NULL]
    ELSE [m |-> M, ret |-> ChainAt(M, orighe, rnd % c.len)]

\* dictGetRandomKey after its rehash step; rnd is the draw that found a
\* bucket with a chain. With no such bucket the loop draws for ever.
RandomKeyStepped(M, rnd, rnd2) ==
    IF ~Running(M) THEN [m |-> M, ret |-> NULL]
    ELSE IF RandomHead(M, rnd) = NULL THEN [m |-> Stop(M, "hang"), ret |-> NULL]
    ELSE RandomPick(M, RandomHead(M, rnd), ChainLength(M, RandomHead(M, rnd), Fuel), rnd2)

dictGetRandomKey(M, rnd, rnd2) ==
    IF dictSize(M) = 0 THEN [m |-> M, ret |-> NULL]
    ELSE RandomKeyStepped(StepIfRehashing(M), rnd, rnd2)

\* dictGetRandomKey; the last draw for the bucket is one that finds a chain
\* in the tables as the rehash step leaves them, any draw when there is none
\* (no draw is made on a dict without entries).
RandomKey ==
    /\ Running(m)
    /\ \E rnd \in RandomDraws, rnd2 \in 0..1 :
         /\ dictSize(m) = 0 => rnd = 0
         /\ (dictSize(m) # 0 /\ LastDraws(StepIfRehashing(Enter)) # {})
                => rnd \in LastDraws(StepIfRehashing(Enter))
         /\ \E r \in {dictGetRandomKey(Enter, rnd, rnd2)} :
              /\ m' = r.m
              /\ last' = [NoCall EXCEPT !.op = "dictGetRandomKey", !.ret = Seen(r)]
    /\ UNCHANGED live
    /\ run' = NoRun

\* The caller holds an iterator it has not advanced yet.
Fresh == it.state = "live" /\ ~Advanced(it.i)

\* A fresh dict and populated ones of NKeys - 1 keys and more in a table of
\* DICT_HT_INITIAL_SIZE buckets, on which a caller looks up, inserts, deletes
\* (keys of FewKeys) and samples once dictExpand calls have armed a rehash,
\* while a safe iterator is got, advanced once and released.
InitStep ==
    \/ Init /\ m.nullpage = "trap"
    \/ InitLook /\ m.ht[0].size = DICT_HT_INITIAL_SIZE

NextStep ==
    /\ \/ Find /\ last'.key \in FewKeys /\ UNCHANGED it
       \/ Add(LowAddr(m), FewEntries(m), FewKeys) /\ UNCHANGED it
       \/ Delete /\ last'.key \in FewKeys /\ UNCHANGED it
       \/ RandomKey /\ UNCHANGED it
       \/ last.op \in {"none", "dictExpand"} /\ Expand(LowAddr(m)) /\ UNCHANGED it
       \/ GetIterator({dictGetSafeIterator})
       \/ Fresh /\ Advance
       \/ Release
    /\ UNCHANGED scan

SpecStep == InitStep /\ [][NextStep]_vars

\* The calls that make the automatic rehash step.
StepCalls == {"dictFetchValue", "dictAdd", "dictDelete", "dictGetRandomKey"}

\* The entries M1 holds in table 1 that M held in table 0.
MovedEntries(M, M1) == TableEntries(M1, 1) \cap TableEntries(M, 0)

\* The statement of C25 as the claim makes it: each of the four calls, made
\* on a rehashing dict, makes a rehash step (rehashidx changes) exactly when
\* iterators is 0.
C25_AsStated ==
    [][(last'.op \in StepCalls /\ dictIsRehashing(m) /\ Running(m'))
       => ((m'.rehashidx # m.rehashidx) <=> (m.iterators = 0))]_vars

\* C25: dictFind, dictAddRaw and dictGenericDelete, made on a rehashing
\* dict, make a rehash step (rehashidx changes) exactly when iterators is 0,
\* and so does dictGetRandomKey on a dict that holds entries; on a rehashing
\* dict without entries dictGetRandomKey returns NULL and makes no step.
\* While iterators is above 0 the calls leave rehashidx as it is and move no
\* entry of table 0 to table 1.
C25_StepIfNoIterator ==
    [][(last'.op \in StepCalls /\ dictIsRehashing(m) /\ Running(m'))
       => /\ (m'.rehashidx # m.rehashidx)
                <=> (/\ m.iterators = 0
                     /\ (last'.op = "dictGetRandomKey" => dictSize(m) # 0))
          /\ m.iterators > 0
                => (m'.rehashidx = m.rehashidx /\ MovedEntries(m, m') = {})]_vars

\* A lookup, insertion, deletion or sample was made on a rehashing dict
\* whose table 0 holds entries while a safe iterator was registered: the
\* dict is at the same rehashidx.
C25_Witness ==
    /\ last.op \in StepCalls
    /\ m.iterators > 0 /\ it.state = "live"
    /\ dictIsRehashing(m) /\ m.rehashidx > 0
    /\ m.ht[0].used > 0 /\ m.ht[1].used > 0

\* ------------------------------------------- one rehash step for each call
\* Populated dicts on which keys of FewKeys, stored or not, are looked up,
\* inserted, replaced and deleted, next to dictExpand and dictRehash.
NextOnce ==
    /\ \/ Add(LowAddr(m), LowEntry(m), FewKeys)
       \/ Replace(LowAddr(m), LowEntry(m), FewKeys)
       \/ PeplaceRaw(LowAddr(m), LowEntry(m), FewKeys)
       \/ Find /\ last'.key \in FewKeys
       \/ Delete /\ last'.key \in FewKeys
       \/ Expand(LowAddr(m))
       \/ Rehash
    /\ UNCHANGED <<scan, it>>

SpecOnce == InitLoaded /\ [][NextOnce]_vars

\* The memory after one rehash step, and after two.
OneStep(M) == dictRehash(M, 1).m
TwoSteps(M) == dictRehash(OneStep(M), 1).m

\* The call that led to the next state was made on a rehashing dict with no
\* iterator registered, returned, and left the dict in the rehash it found:
\* rehashidx then tells the steps made, as no call moves it otherwise.
SteppedCall(ops) ==
    /\ last'.op \in ops
    /\ dictIsRehashing(m) /\ m.iterators = 0
    /\ Running(m') /\ dictIsRehashing(TwoSteps(m))

\* The statement of C26 as the claim makes it: each of the calls makes
\* exactly one rehash step.
C26_AsStated ==
    [][SteppedCall({"dictAdd", "dictReplace", "dictPeplaceRaw", "dictFetchValue",
                    "dictDelete"})
       => m'.rehashidx = OneStep(m).rehashidx]_vars

\* C26: on a rehashing dict with no iterator registered, dictAdd, dictFind,
\* dictFetchValue and dictDelete make exactly one rehash step before their
\* own work; dictReplace and dictPeplaceRaw make one step when the key is
\* stored and two when it is not, one in each of the two calls they make
\* (dictAddRaw and dictFind).
C26_OneStep ==
    [][/\ SteppedCall({"dictAdd", "dictFetchValue", "dictDelete"})
            => m'.rehashidx = OneStep(m).rehashidx
       /\ SteppedCall({"dictReplace", "dictPeplaceRaw"})
            => m'.rehashidx =
                  IF TableSearch(OneStep(m), last'.key).he # NULL
                  THEN OneStep(m).rehashidx ELSE TwoSteps(m).rehashidx]_vars

\* dictPeplaceRaw returned the entry of a stored key on a dict that is still
\* rehashing, with entries in both tables.
C26_Witness ==
    /\ last.op = "dictPeplaceRaw" /\ last.had /\ last.ret \in EntryIds
    /\ dictIsRehashing(m) /\ m.rehashidx > 0
    /\ m.ht[0].used > 0 /\ m.ht[1].used > 0

\* -------------------------------------------------- the load of table 0
\* The entries the program of this section allocates: enough to bring a
\* table of DICT_HT_INITIAL_SIZE buckets past dict_force_resize_ratio.
MaxLoad == 26

\* zmalloc returns the lowest free address of the heap of M.
LoadEntry(M) ==
    {e \in DOMAIN M.heap : /\ ~M.heap[e].alloc
                            /\ \A f \in DOMAIN M.heap : ~M.heap[f].alloc => e <= f}

\* The program from dictCreate on, with room for MaxLoad entries.
InitLoad ==
    /\ \E np \in {"trap", "mapped"} :
         m = [dictCreate(np) EXCEPT
                 !.heap = [e \in 1..MaxLoad |->
                              [alloc |-> FALSE, key |-> Uninit, val |-> Uninit,
                               next |-> Uninit]]]
    /\ last = NoCall
    /\ live = {}
    /\ run = NoRun
    /\ scan = NoScan
    /\ it = NoIter

\* Insertions of one key with one value (dictAddRaw never links the entry, so
\* that the key is never found), deletions, the resize flag switched off and
\* on, dictExpand, and one safe iterator that is got, advanced once and
\* released.
NextLoad ==
    /\ \/ Add(LowAddr(m), LoadEntry(m), {1}) /\ last'.val = 1 /\ UNCHANGED it
       \/ Delete /\ last'.key = 1 /\ UNCHANGED it
       \/ SetResize /\ UNCHANGED it
       \/ Expand(LowAddr(m)) /\ UNCHANGED it
       \/ it.state = "none" /\ GetIterator({dictGetSafeIterator})
       \/ Fresh /\ Advance
       \/ Release
    /\ UNCHANGED scan

SpecLoad == InitLoad /\ [][NextLoad]_vars

\* The test of _dictExpandIfNeeded on a dict that has a table 0 and is not
\* rehashing; used / size is the quotient of two unsigned long.
LoadCalls(M) ==
    \/ M.ht[0].used >= M.ht[0].size /\ M.dict_can_resize # 0
    \/ M.ht[0].used \div M.ht[0].size > dict_force_resize_ratio

\* Table t of M1 is the array it is in M.
SameTable(M, M1, t) ==
    M1.ht[t].addr = M.ht[t].addr /\ M1.ht[t].size = M.ht[t].size

\* What dictAdd has made of the tables of G, the memory once its rehash step
\* was made.
Expanded(G, M1) ==
    IF dictIsRehashing(G)
    THEN M1.rehashidx = G.rehashidx /\ SameTable(G, M1, 0) /\ SameTable(G, M1, 1)
    ELSE IF G.ht[0].size = 0
    THEN /\ M1.ht[0].size = DICT_HT_INITIAL_SIZE /\ M1.ht[0].addr # NULL
         /\ ~dictIsRehashing(M1) /\ SameTable(G, M1, 1)
    ELSE IF LoadCalls(G)
    THEN /\ M1.rehashidx = 0 /\ SameTable(G, M1, 0)
         /\ M1.ht[1].addr # NULL
         /\ M1.ht[1].size = LeastPower(2 * G.ht[0].used)
    ELSE ~dictIsRehashing(M1) /\ SameTable(G, M1, 0) /\ SameTable(G, M1, 1)

\* C27: a dictAdd on a dict that is not rehashing once its rehash step is
\* made gives a dict without table 0 a table of DICT_HT_INITIAL_SIZE buckets;
\* else it calls dictExpand(2 * ht[0].used), which arms a rehash to the next
\* power of two, exactly when ht[0].used >= ht[0].size with resizing enabled
\* or the quotient ht[0].used / ht[0].size (an integer division) is above
\* dict_force_resize_ratio, whatever the flag; on a dict that is rehashing it
\* installs no table.
C27_ExpandIfNeeded ==
    [][(last'.op = "dictAdd" /\ Running(StepIfRehashing(m)))
       => Expanded(StepIfRehashing(m), m')]_vars

\* A dictAdd made with resizing disabled on a table of DICT_HT_INITIAL_SIZE
\* buckets that counted 6 * DICT_HT_INITIAL_SIZE entries has armed a rehash
\* to a table of 64 buckets.
C27_Witness ==
    /\ last.op = "dictAdd" /\ last.ret = DICT_OK
    /\ m.dict_can_resize = 0
    /\ m.ht[0].size = DICT_HT_INITIAL_SIZE
    /\ m.ht[0].used = 6 * DICT_HT_INITIAL_SIZE
    /\ m.rehashidx = 0 /\ m.ht[1].size = 64 /\ m.ht[1].used = 1

\* C28: a dictAdd that returns with the dict not rehashing leaves
\* ht[0].used <= ht[0].size when resizing was enabled during the call, and
\* ht[0].used <= (dict_force_resize_ratio + 1) * ht[0].size whatever the
\* flag.
C28_LoadBound ==
    [][(last'.op = "dictAdd" /\ Running(m') /\ ~dictIsRehashing(m'))
       => /\ m'.ht[0].used <= (dict_force_resize_ratio + 1) * m'.ht[0].size
          /\ m.dict_can_resize # 0 => m'.ht[0].used <= m'.ht[0].size]_vars

\* A dictAdd made with resizing disabled has filled a table of
\* DICT_HT_INITIAL_SIZE buckets to the bound, and the dict is not rehashing.
C28_Witness ==
    /\ last.op = "dictAdd" /\ last.ret = DICT_OK /\ Running(m)
    /\ m.dict_can_resize = 0 /\ ~dictIsRehashing(m)
    /\ m.ht[0].size = DICT_HT_INITIAL_SIZE
    /\ m.ht[0].used = (dict_force_resize_ratio + 1) * DICT_HT_INITIAL_SIZE

\* ------------------------------------------------- the count of iterators
\* A dict of DICT_HT_INITIAL_SIZE buckets that holds Keys, and a caller that gets an
\* iterator, safe or not, advances it once or twice and releases it, then
\* gets another, while it inserts and deletes a key, expands, rehashes and
\* empties the dict.
InitCount ==
    /\ m = dictLoaded("trap", DICT_HT_INITIAL_SIZE, Keys, "up")
    /\ live = Keys
    /\ last = NoCall
    /\ run = NoRun
    /\ scan = NoScan
    /\ it = NoIter

NextCount ==
    /\ \/ GetIterator({dictGetIterator, dictGetSafeIterator})
       \/ it.calls < 2 /\ Advance
       \/ Release
       \/ Add(LowAddr(m), FewEntries(m), {1}) /\ last'.val = 1 /\ UNCHANGED it
       \/ Delete /\ last'.key = 1 /\ UNCHANGED it
       \/ Expand(LowAddr(m)) /\ last'.val = MaxExpand /\ UNCHANGED it
       \/ Rehash /\ UNCHANGED it
       \/ Empty /\ UNCHANGED it
    /\ UNCHANGED scan

SpecCount == InitCount /\ [][NextCount]_vars

\* The safe iterators that were advanced and are not released: the caller
\* holds one iterator at a time.
Outstanding == IF it.state = "live" /\ it.i.safe # 0 /\ Advanced(it.i) THEN 1 ELSE 0

\* C29: d->iterators is the number of safe iterators that dictNext advanced
\* at least once and dictReleaseIterator has not released; it is never
\* negative, and it is 0 once every iterator is released.
C29_IteratorsCounted ==
    Running(m) => m.iterators = Outstanding

\* ------------------------------------------------- a walk over the dict
\* dictNext on the iterator held, by a caller that keeps what it returns and
\* goes on calling it until it has got NULL three times.
Walk ==
    /\ Running(m)
    /\ it.state = "live"
    /\ Len(it.returned) < NKeys + 3
    /\ Cardinality({j \in 1..Len(it.returned) : it.returned[j] = NULL}) < 3
    /\ \E r \in {dictNext(Enter, it.i)} :
         /\ m' = r.m
         /\ last' = [NoCall EXCEPT !.op = "dictNext", !.ret = Seen(r)]
         /\ it' = [it EXCEPT !.i = r.it, !.returned = Append(@, Seen(r))]
    /\ UNCHANGED live
    /\ run' = NoRun

\* Populated dicts that are grown, shrunk, rehashed and deleted from; then an
\* iterator, safe or not, is got and dictNext is the only call made.
NextWalk ==
    /\ \/ it.state = "none" /\ Delete /\ last'.key \in FewKeys /\ UNCHANGED it
       \/ it.state = "none" /\ Expand(LowAddr(m)) /\ UNCHANGED it
       \/ it.state = "none" /\ Resize(LowAddr(m)) /\ UNCHANGED it
       \/ it.state = "none" /\ Rehash /\ UNCHANGED it
       \/ it.state = "none" /\ GetIterator({dictGetIterator, dictGetSafeIterator})
       \/ Walk
    /\ UNCHANGED scan

SpecWalk == InitIter /\ [][NextWalk]_vars

\* R lists entries of the dict without repetition, those of table 0 before
\* those of table 1, for as many calls as the dict has entries, and NULL for
\* every call after them.
WalkedOnce(M, R) ==
    /\ \A j \in 1..Len(R) :
          IF j <= dictSize(M) THEN R[j] \in AllEntries(M) ELSE R[j] = NULL
    /\ \A i, j \in 1..Len(R) :
          (i < j /\ j <= dictSize(M))
              => /\ R[i] # R[j]
                 /\ ~(R[i] \in TableEntries(M, 1) /\ R[j] \in TableEntries(M, 0))

\* C30: while dictNext is the only call made on the dict, the calls made on
\* an iterator, safe or not, return every entry of table 0 and then, when the
\* dict is rehashing, every entry of table 1, each once, and NULL from then
\* on.
C30_NextWalksAll ==
    it.state = "live"
        => /\ Running(m)
           /\ dictSize(m) = Cardinality(AllEntries(m))
           /\ WalkedOnce(m, it.returned)

\* An unsafe iterator has returned the entries of both tables of a rehashing
\* dict that holds NKeys entries, and NULL three times.
C30_Witness ==
    /\ it.state = "live" /\ it.i.safe = 0
    /\ dictIsRehashing(m) /\ m.ht[0].used > 0 /\ m.ht[1].used > 0
    /\ dictSize(m) = NKeys
    /\ Len(it.returned) = NKeys + 3
    /\ it.returned[NKeys] # NULL
    /\ it.returned[NKeys + 3] = NULL

\* ------------------------------------- deleting what the iterator returned
\* dictDelete of the key of the entry the last dictNext returned.
DeleteReturned ==
    /\ it.state = "live"
    /\ last.op = "dictNext" /\ last.ret \in EntryIds
    /\ Delete
    /\ last'.key = m.heap[last.ret].key
    /\ UNCHANGED it

\* Populated dicts that are grown and rehashed; then a safe iterator is got,
\* and after each dictNext the caller deletes the entry returned, or not.
NextPrune ==
    /\ \/ it.state = "none" /\ Expand(LowAddr(m)) /\ UNCHANGED it
       \/ it.state = "none" /\ Rehash /\ UNCHANGED it
       \/ it.state = "none" /\ GetIterator({dictGetSafeIterator})
       \/ Walk
       \/ DeleteReturned
    /\ UNCHANGED scan

SpecPrune == InitIter /\ [][NextPrune]_vars

\* The entries R lists.
WalkEntries(R) == {R[j] : j \in 1..Len(R)} \ {NULL}

\* C31: while a safe iterator walks a dict and the caller deletes entries
\* dictNext has just returned, no freed entry is read, no entry is returned
\* twice, NULL is followed by NULL, and when NULL is returned every entry
\* still in the dict has been returned.
C31_DeleteWhileWalking ==
    it.state = "live"
        => /\ Running(m)
           /\ \A i, j \in 1..Len(it.returned) :
                 i < j => /\ it.returned[i] = NULL => it.returned[j] = NULL
                          /\ it.returned[j] # NULL => it.returned[i] # it.returned[j]
           /\ NULL \in {it.returned[j] : j \in 1..Len(it.returned)}
                 => AllEntries(m) \subseteq WalkEntries(it.returned)

\* A walk over both tables of a rehashing dict is over; two of the entries
\* returned were deleted, and the call after one of them returned the entry
\* that followed it in its chain of table 0, which is still there.
C31_Witness ==
    /\ it.state = "live" /\ last.op = "dictNext" /\ last.ret = NULL
    /\ dictIsRehashing(m) /\ m.ht[0].used > 0 /\ m.ht[1].used > 0
    /\ Cardinality(WalkEntries(it.returned) \ AllEntries(m)) = 2
    /\ \E j \in 1..(Len(it.returned) - 1) :
          /\ it.returned[j] \notin AllEntries(m)
          /\ it.returned[j + 1] \in TableEntries(m, 0)
          /\ BitAnd(dictHashKey(it.returned[j]), m.ht[0].sizemask)
                = BitAnd(dictHashKey(it.returned[j + 1]), m.ht[0].sizemask)

\* ------------------------------------------- one dictScan while rehashing
\* The smaller and the larger table of a rehashing dict, as dictScan picks
\* them, and the keys chained in bucket j of table t.
SmallTable(M) == IF M.ht[0].size > M.ht[1].size THEN 1 ELSE 0
LargeTable(M) == 1 - SmallTable(M)
KeysAt(M, t, j) == {M.heap[e].key : e \in ChainEntries(M, M.ht[t].table[j], Fuel)}

\* How often one dictScan(d, v) call on M gives each key to the visitor.
VisitsOf(M, v) == dictScan(M, v, NoScan.visits).visits

\* The keys of bucket v & m0 of the smaller table and of the buckets j >= low
\* of the larger table with j & m0 = v & m0.
Expansion(M, v, low) ==
    KeysAt(M, SmallTable(M), BitAnd(v, M.ht[SmallTable(M)].sizemask))
        \cup UNION {KeysAt(M, LargeTable(M), j) :
                      j \in {i \in low..M.ht[LargeTable(M)].sizemask :
                               BitAnd(i, M.ht[SmallTable(M)].sizemask)
                                 = BitAnd(v, M.ht[SmallTable(M)].sizemask)}}

\* One call gave the visitor each key of S once and no other key.
VisitedOnce(M, v, S) ==
    \A k \in Keys : VisitsOf(M, v)[k] = IF k \in S THEN 1 ELSE 0

InitPeek ==
    (Init /\ m.nullpage = "trap") \/ (InitLoaded /\ Cardinality(live) <= 2)

NextPeek ==
    /\ \/ Scan
       \/ Delete /\ last'.key \in FewKeys /\ scan' = ScanTouched
       \/ Expand(LowAddr(m)) /\ scan' = ScanTouched
       \/ Rehash /\ scan' = ScanTouched
       \/ Empty /\ scan' = ScanTouched
    /\ UNCHANGED it

SpecPeek == InitPeek /\ [][NextPeek]_vars

\* C33: a dictScan call leaves the tables, the chains, the used counts,
\* rehashidx and iterators as they were, and on a dict without entries it
\* returns 0 and the visitor is not called.
C33_ScanReadsOnly ==
    [][last'.op = "dictScan"
       => /\ m' = Enter
          /\ dictSize(m) = 0
                => scan'.v = W64Zero /\ scan'.visits = ScanEnter.visits]_vars

\* dictScan visited a key of a dict that is rehashing with entries left in
\* table 0, and returned a cursor to go on with.
C33_Witness ==
    /\ last.op = "dictScan" /\ Running(m)
    /\ dictIsRehashing(m) /\ m.ht[0].used > 0
    /\ scan.phase = "on"
    /\ \E k \in Keys : scan.visits[k] > 0

\* ------------------------------------------- deletions and what they free
\* dictDeleteNoFree(d, key)
DeleteNoFree ==
    /\ Running(m)
    /\ \E key \in Keys :
         \E r \in {dictDeleteNoFree(Enter, key)} :
             /\ m' = r.m
             /\ last' = Called("dictDeleteNoFree", key, 0, r)
             /\ live' = IF Seen(r) = DICT_OK THEN live \ {key} ELSE live
             /\ run' = NoRun

\* Fresh and populated dicts, deleted from with and without the destructors
\* while they are grown, shrunk and rehashed.
NextDelete ==
    /\ \/ Delete
       \/ DeleteNoFree
       \/ Expand(LowAddr(m))
       \/ Resize(LowAddr(m))
       \/ Rehash
    /\ UNCHANGED <<scan, it>>

SpecDelete == InitTables /\ [][NextDelete]_vars

\* C34: dictDelete and dictDeleteNoFree of a key that is in neither table
\* return DICT_ERR; on a dict without table 0 nothing changes, else nothing
\* but what the one rehash step of the call changes, which leaves the entries
\* and their number as they were.
C34_DeleteAbsent ==
    [][(last'.op \in {"dictDelete", "dictDeleteNoFree"} /\ ~last'.had)
       => /\ last'.ret = DICT_ERR
          /\ m' = IF m.ht[0].size = 0 THEN Enter ELSE StepIfRehashing(Enter)
          /\ AllEntries(m') = AllEntries(m)
          /\ dictSize(m') = dictSize(m)
          /\ ~dictIsRehashing(m)
                => m'.ht = m.ht /\ m'.heap = m.heap /\ m'.rehashidx = -1]_vars

\* dictDeleteNoFree did not find its key in a dict that is rehashing with
\* entries in both tables.
C34_Witness ==
    /\ last.op = "dictDeleteNoFree" /\ ~last.had /\ last.ret = DICT_ERR
    /\ dictIsRehashing(m) /\ m.ht[0].used > 0 /\ m.ht[1].used > 0

\* The destructor calls a dictDelete of key makes on a dict in state M: the
\* key destructor on the key and the value destructor on the value stored.
FreedBy(M, key) == {<<"key", key>>, <<"val", FindVal(M, key)>>}

\* C35: dictDelete of a stored key calls the key destructor and the value
\* destructor once each, on the key and the value of the entry it removes,
\* and no other; dictDeleteNoFree removes the entry and calls neither; a call
\* that does not find its key calls neither.
C35_DeleteDestructors ==
    [][last'.op \in {"dictDelete", "dictDeleteNoFree"}
       => IF last'.had
          THEN /\ last'.ret = DICT_OK
               /\ last'.key \notin KeysIn(m')
               /\ dictSize(m') = dictSize(m) - 1
               /\ IF last'.op = "dictDelete"
                  THEN /\ Len(last'.log) = 2
                       /\ {last'.log[1], last'.log[2]} = FreedBy(m, last'.key)
                  ELSE last'.log = <<>>
          ELSE last'.log = <<>>]_vars

\* dictDelete removed an entry from inside a chain of a rehashing dict and
\* called both destructors.
C35_Witness ==
    /\ last.op = "dictDelete" /\ last.ret = DICT_OK /\ last.had
    /\ Len(last.log) = 2 /\ last.log[1][1] # last.log[2][1]
    /\ last.prevHe # NULL
    /\ dictIsRehashing(m)

\* ------------------------------------------------------------ dictEmpty
\* The destructor calls that free every entry of M: the key destructor on its
\* key and the value destructor on its value.
FreedAll(M) ==
    UNION {{<<"key", M.heap[e].key>>, <<"val", M.heap[e].val>>} : e \in AllEntries(M)}

\* What dictEmpty makes of M: no table, no entry, rehashidx -1, and log lists
\* one call of either destructor for every entry M held.
Emptied(M, M1, log) ==
    /\ Running(M1)
    /\ M1.ht[0] = _dictReset /\ M1.ht[1] = _dictReset
    /\ M1.rehashidx = -1
    /\ AllEntries(M1) = {}
    /\ \A e \in AllEntries(M) : ~M1.heap[e].alloc
    /\ {log[j] : j \in 1..Len(log)} = FreedAll(M)
    /\ Len(log) = 2 * Cardinality(AllEntries(M))

\* C36: dictEmpty leaves both tables without array, with size 0 and used 0,
\* and rehashidx -1, having called both destructors once for every entry of
\* either table; the dictAdd that follows gives the dict a table 0 and
\* returns DICT_OK.
C36_EmptyThenAdd ==
    [][/\ last'.op = "dictEmpty" => Emptied(m, m', last'.log)
       /\ (last.op = "dictEmpty" /\ last'.op = "dictAdd")
             => /\ last'.ret = DICT_OK
                /\ Running(m')
                /\ m'.ht[0].size = DICT_HT_INITIAL_SIZE]_vars

\* ------------------------------------------------- the shape of the tables
\* The chain from he on ends with NULL after allocated entries only.
RECURSIVE ChainEnds(_, _, _)
ChainEnds(M, he, fuel) ==
    IF he = NULL THEN TRUE
    ELSE IF fuel = 0 \/ he \notin EntryIds THEN FALSE
    ELSE IF ~M.heap[he].alloc THEN FALSE
    ELSE ChainEnds(M, M.heap[he].next, fuel - 1)

\* The buckets, as pairs of table and index, whose chain holds entry e.
HoldersOf(M, e) ==
    {tb \in {0, 1} \X (0..(dictSlots(M) - 1)) :
        /\ tb[2] \in DOMAIN M.ht[tb[1]].table
        /\ e \in ChainEntries(M, M.ht[tb[1]].table[tb[2]], Fuel)}

\* Every chain of M ends, every allocated entry is in the chain of one bucket
\* of one table, and used counts the entries of each table.
Chained(M) ==
    /\ \A t \in {0, 1} : \A b \in DOMAIN M.ht[t].table :
          ChainEnds(M, M.ht[t].table[b], Fuel)
    /\ \A e \in EntryIds : M.heap[e].alloc => Cardinality(HoldersOf(M, e)) = 1
    /\ \A t \in {0, 1} : M.ht[t].used = Cardinality(TableEntries(M, t))

\* C37: in every state of the running process every bucket chain is finite
\* and acyclic, every entry is reachable from exactly one bucket of exactly
\* one table, and used of each table is the number of entries reachable from
\* its buckets.
C37_ChainsWellFormed ==
    Running(m) => Chained(m)

\* Every entry in a chain of table t of M lies in the bucket its key hashes
\* to under the sizemask of that table.
InOwnBucket(M, t) ==
    \A b \in DOMAIN M.ht[t].table :
        \A e \in ChainEntries(M, M.ht[t].table[b], Fuel) :
            BitAnd(dictHashKey(M.heap[e].key), M.ht[t].sizemask) = b

\* C38: in every state of the running process every entry stored in table t
\* is chained in bucket hash(key) & ht[t].sizemask of that table, the entries
\* inserted while rehashing and those dictRehash moved included.
C38_BucketOfKey ==
    Running(m) => InOwnBucket(m, 0) /\ InOwnBucket(m, 1)

\* A dictAdd made while rehashing has chained its entry in table 1, next to
\* an entry dictRehash had moved there, and table 0 still holds an entry.
C38_Witness ==
    /\ last.op = "dictAdd" /\ last.ret = DICT_OK /\ Running(m)
    /\ dictIsRehashing(m) /\ m.ht[0].used > 0
    /\ \E e \in TableEntries(m, 1) : m.heap[e].key = last.key
    /\ \E e \in TableEntries(m, 1) : m.heap[e].key # last.key

\* ------------------------------------------------ the end of a rehash
\* C39: while dictRehash(d, 1) is called again and again on a dict that
\* dictExpand made rehashing, every call returns, its skip loop having found
\* a chain inside table 0, and after ht[0].size + 1 calls at the latest
\* rehashidx is -1.
C39_RehashEnds ==
    run.active
        => /\ Running(m)
           /\ run.calls = run.size0 + 1 => m.rehashidx = -1

\* ------------------------------------------------- the cursor dictScan returns
\* The cursors a caller gives to dictScan: the bucket indices of the tables,
\* and words with bits set above every sizemask, up to the highest.
ScanCursors ==
    {W64(v) : v \in 0..(2 * DICT_HT_INITIAL_SIZE - 1)}
        \cup {<<a, 0, 0, d>> : a \in {6, 65535}, d \in {32768, 65535}}
        \cup {<<0, 1, 0, 0>>, <<5, 1, 65535, 0>>}

\* dictScan with any cursor of ScanCursors; val records the cursor given, -1
\* for one above every table size.
ScanFrom ==
    /\ Running(m)
    /\ \E v \in ScanCursors :
         \E r \in {dictScan(Enter, v, NoScan.visits)} :
             /\ m' = r.m
             /\ last' = [NoCall EXCEPT !.op = "dictScan",
                                       !.val = IF W64Small(v) THEN W64Int(v) ELSE -1]
             /\ scan' = [NoScan EXCEPT !.phase = IF r.ret = W64Zero THEN "done" ELSE "on",
                                       !.v = r.ret]
    /\ UNCHANGED live
    /\ run' = NoRun

\* Dicts of 4 and 8 buckets that hold the keys 1..(NKeys - 1) and are grown,
\* shrunk and rehashed, and scanned with any cursor.
InitCursor == InitScan /\ live = 1..(NKeys - 1)

NextCursor ==
    /\ \/ ScanFrom
       \/ Expand(LowAddr(m)) /\ scan' = ScanTouched
       \/ Resize(LowAddr(m)) /\ scan' = ScanTouched
       \/ Rehash /\ scan' = ScanTouched
    /\ UNCHANGED it

SpecCursor == InitCursor /\ [][NextCursor]_vars

\* C40: the cursor dictScan returns on a dict that holds entries has no bit
\* set outside the sizemask m0 of the table used for the advance, the
\* smaller one while rehashing.
C40_CursorInMask ==
    (last.op = "dictScan" /\ dictSize(m) > 0)
        => /\ Running(m)
           /\ W64And(scan.v, W64Not(W64(ScanMask(m)))) = W64Zero

\* dictScan was given a cursor with bits above every sizemask on a dict that
\* is shrinking, and returned a cursor other than 0.
C40_Witness ==
    /\ last.op = "dictScan" /\ last.val = -1
    /\ dictIsRehashing(m) /\ m.ht[0].size > m.ht[1].size
    /\ scan.v # W64Zero
    /\ W64Int(scan.v) <= m.ht[1].sizemask

====
